---- MODULE Spec2Model ----
(***************************************************************************)
(* Tab Organizer AI: the deterministic tab-classification engine           *)
(* (src/unnamed/part_002, second module: canonicalizeUrl, extractDomain,   *)
(* computeDedupePlan, groupByRules and their helpers).                     *)
(*                                                                         *)
(* Strings are TLC strings; the string primitives of JavaScript that the   *)
(* engine uses (startsWith, endsWith, includes, split, slice, replace of a *)
(* fixed pattern) are defined below on top of Len, SubSeq and \o.          *)
(* URLs of the model contain no credentials, ports, fragments inside the   *)
(* query, dot segments or upper-case host names; inside query values only  *)
(* "/" needs percent-encoding.                                             *)
(***************************************************************************)
EXTENDS Integers, Sequences, FiniteSets, TLC

(***************************************************************************)
(* JavaScript string primitives                                            *)
(***************************************************************************)
Null == "<null>"

Min(S) == CHOOSE m \in S : \A k \in S : m <= k
Max(S) == CHOOSE m \in S : \A k \in S : m >= k

CharAt(s, i) == IF i >= 1 /\ i <= Len(s) THEN SubSeq(s, i, i) ELSE ""

Slice(s, from) == IF from > Len(s) THEN "" ELSE SubSeq(s, from, Len(s))

StartsWith(s, p) == Len(p) <= Len(s) /\ SubSeq(s, 1, Len(p)) = p

EndsWith(s, p) == Len(p) <= Len(s) /\ SubSeq(s, Len(s) - Len(p) + 1, Len(s)) = p

\* 1-based position of the first occurrence of t in s at or after from, 0 if none
IndexFrom(s, t, from) ==
  LET hits == {i \in from..(Len(s) - Len(t) + 1) : SubSeq(s, i, i + Len(t) - 1) = t}
  IN IF hits = {} THEN 0 ELSE Min(hits)

IndexOf(s, t) == IndexFrom(s, t, 1)

Includes(s, t) == IndexOf(s, t) # 0

\* forces a lazily defined sequence into an explicit tuple
Materialize(f) == f \o <<>>

\* `const name = v; ...`: Body is evaluated with the value v bound to its parameter
Bind(v, Body(_)) == Body(v)

\* the elements of a finite set of integers in ascending order
SortedInts(P) ==
  Materialize([k \in 1..Cardinality(P) |-> CHOOSE p \in P : Cardinality({q \in P : q < p}) = k - 1])

\* String.prototype.split(sep) for a one-character separator
Split(s, sep) ==
  Bind(SortedInts({i \in 1..Len(s) : SubSeq(s, i, i) = sep}), LAMBDA pos :
    Materialize([k \in 1..(Len(pos) + 1) |->
      SubSeq(s, IF k = 1 THEN 1 ELSE pos[k - 1] + 1,
                IF k = Len(pos) + 1 THEN Len(s) ELSE pos[k] - 1)]))

\* Array.prototype.filter(Boolean) on an array of strings
FilterBoolean(parts) == SelectSeq(parts, LAMBDA x : x # "")

RECURSIVE ConcatRange(_, _, _)
ConcatRange(ss, lo, hi) ==
  IF lo > hi THEN <<>>
  ELSE IF lo = hi THEN ss[lo]
  ELSE LET mid == (lo + hi) \div 2
       IN ConcatRange(ss, lo, mid) \o ConcatRange(ss, mid + 1, hi)

\* concatenation of a sequence of sequences
Flatten(ss) == ConcatRange(ss, 1, Len(ss))

RECURSIVE JoinRange(_, _, _, _)
JoinRange(parts, sep, lo, hi) ==
  IF lo > hi THEN ""
  ELSE IF lo = hi THEN parts[lo]
  ELSE LET mid == (lo + hi) \div 2
       IN JoinRange(parts, sep, lo, mid) \o sep \o JoinRange(parts, sep, mid + 1, hi)

\* Array.prototype.join(sep)
Join(parts, sep) == JoinRange(parts, sep, 1, Len(parts))

\* Array.prototype.slice(0, n)
Take(seq, n) == SubSeq(seq, 1, IF n < Len(seq) THEN n ELSE Len(seq))

LowerAZ == "abcdefghijklmnopqrstuvwxyz"
UpperAZ == "ABCDEFGHIJKLMNOPQRSTUVWXYZ"

\* the characters of a string, as a set of one-character strings
Chars(str) == {SubSeq(str, k, k) : k \in 1..Len(str)}

\* the character classes [a-z], [A-Z] and \d
Lower == Chars(LowerAZ)
Upper == Chars(UpperAZ)
Digits == Chars("0123456789")

InClass(c, cls) == c \in cls

\* s with every character of class cls, listed in `from`, replaced by the character of `to` at its position
MapChars(s, cls, from, to) ==
  IF \A i \in 1..Len(s) : SubSeq(s, i, i) \notin cls THEN s
  ELSE Join(Materialize([i \in 1..Len(s) |->
              IF SubSeq(s, i, i) \in cls
              THEN SubSeq(to, IndexOf(from, SubSeq(s, i, i)), IndexOf(from, SubSeq(s, i, i)))
              ELSE SubSeq(s, i, i)]), "")

ToLowerCase(s) == MapChars(s, Upper, UpperAZ, LowerAZ)
ToUpperCase(s) == MapChars(s, Lower, LowerAZ, UpperAZ)

\* number of consecutive characters of class cls in s from position j on
RunLen(s, j, cls) ==
  LET bad == {k \in j..Len(s) : ~InClass(SubSeq(s, k, k), cls)}
  IN IF j > Len(s) THEN 0 ELSE IF bad = {} THEN Len(s) - j + 1 ELSE Min(bad) - j

\* s.replace(/\/+$/, '')
StripTrailingSlashes(s) ==
  LET keep == {i \in 1..Len(s) : SubSeq(s, i, i) # "/"}
  IN IF keep = {} THEN "" ELSE SubSeq(s, 1, Max(keep))

\* Array.prototype.sort(compare) is stable: Before(a, b) is compare(a, b) < 0
StableSort(s, Before(_, _)) ==
  LET n == Len(s)
      rank == Materialize([i \in 1..n |->
                1 + Cardinality({j \in 1..n : Before(s[j], s[i])
                                   \/ (~Before(s[i], s[j]) /\ j < i)})])
  IN Materialize([p \in 1..n |-> s[CHOOSE i \in 1..n : rank[i] = p]])

\* String.prototype.localeCompare(b) < 0 on the characters of the model:
\* punctuation sorts before digits, digits before letters
CollationOrder == "_-.0123456789abcdefghijklmnopqrstuvwxyz"

LocaleLess(a, b) ==
  LET m == IF Len(a) < Len(b) THEN Len(a) ELSE Len(b)
      diff == {i \in 1..m : SubSeq(a, i, i) # SubSeq(b, i, i)}
  IN IF diff = {} THEN Len(a) < Len(b)
     ELSE LET d == Min(diff)
          IN IndexOf(CollationOrder, SubSeq(a, d, d)) < IndexOf(CollationOrder, SubSeq(b, d, d))

(***************************************************************************)
(* URL and URLSearchParams (the platform classes the engine calls)         *)
(***************************************************************************)
TRACKING_PARAM_PREFIXES == <<"utm_", "vero_", "mc_">>

TRACKING_PARAM_NAMES ==
  {"gclid", "fbclid", "igshid", "yclid", "vero_conv", "vero_id", "mc_cid", "mc_eid",
   "spm", "camp", "campaign", "aff", "ref", "ref_src", "referrer", "si", "s",
   "feature", "t", "dclid", "msclkid", "scid", "oly_enc_id", "oly_anon_id"}

\* position of the first of the characters of stops in s, Len(s) + 1 if none
FirstStop(s, stops) ==
  LET hits == {i \in 1..Len(s) : InClass(SubSeq(s, i, i), stops)}
  IN IF hits = {} THEN Len(s) + 1 ELSE Min(hits)

\* percent-encoding of a query key or value by URLSearchParams.toString
EncodeComponent(s) == Join(Split(s, "/"), "%2F")

\* percent-decoding of a query key or value by the URLSearchParams parser
DecodeComponent(s) ==
  LET hits == {i \in 1..(Len(s) - 2) : SubSeq(s, i, i + 2) = "%2F"}
  IN Join(Materialize([i \in 1..Len(s) |->
            IF i \in hits THEN "/"
            ELSE IF (i - 1) \in hits \/ (i - 2) \in hits THEN ""
            ELSE SubSeq(s, i, i)]), "")

\* new URLSearchParams(search): the list of <<key, value>> pairs
ParseSearch(search) ==
  Bind(FilterBoolean(Split(search, "&")), LAMBDA fields :
    Materialize([i \in 1..Len(fields) |->
      Bind(IndexOf(fields[i], "="), LAMBDA e :
        IF e = 0 THEN <<DecodeComponent(fields[i]), "">>
        ELSE <<DecodeComponent(SubSeq(fields[i], 1, e - 1)),
               DecodeComponent(Slice(fields[i], e + 1))>>)]))

\* URLSearchParams.prototype.toString
ParamsToString(params) ==
  Join(Materialize([i \in 1..Len(params) |->
         EncodeComponent(params[i][1]) \o "=" \o EncodeComponent(params[i][2])]), "&")

\* URLSearchParams.prototype.getAll(key)
GetAll(params, key) ==
  Bind(SelectSeq(params, LAMBDA p : p[1] = key), LAMBDA hit :
    Materialize([i \in 1..Len(hit) |-> hit[i][2]]))

\* URLSearchParams.prototype.get(key): the first value, Null when absent
Get(params, key) ==
  Bind(GetAll(params, key), LAMBDA vals : IF vals = <<>> THEN Null ELSE vals[1])

\* a value JavaScript treats as true in `if (value)`
Truthy(v) == v # Null /\ v # ""

\* new URLSearchParams() followed by set(key, value)
SingleParam(key, value) == <<<<key, value>>>>

BadUrl == [ok |-> FALSE, protocol |-> "", hostname |-> "", pathname |-> "", searchParams |-> <<>>]

\* the URL record for a scheme and the text after "scheme:" with its slashes removed
ParsedUrl(scheme, special, hasAuthority, afterSlashes) ==
  Bind(IF hasAuthority THEN FirstStop(afterSlashes, {"/", "?", "#"}) ELSE 1, LAMBDA hostEnd :
  Bind(Slice(afterSlashes, hostEnd), LAMBDA remainder :
  Bind(FirstStop(remainder, {"?", "#"}), LAMBDA pathEnd :
  Bind(Slice(remainder, pathEnd), LAMBDA afterPath :
    IF special /\ (~hasAuthority \/ hostEnd = 1) THEN BadUrl
    ELSE [ok |-> TRUE,
          protocol |-> scheme \o ":",
          hostname |-> IF special THEN ToLowerCase(SubSeq(afterSlashes, 1, hostEnd - 1))
                       ELSE SubSeq(afterSlashes, 1, hostEnd - 1),
          pathname |-> IF special /\ pathEnd = 1 THEN "/" ELSE SubSeq(remainder, 1, pathEnd - 1),
          searchParams |-> ParseSearch(IF StartsWith(afterPath, "?")
                                       THEN SubSeq(afterPath, 2, FirstStop(afterPath, {"#"}) - 1)
                                       ELSE "")]))))

\* safeUrl: new URL(rawUrl), or ok = FALSE where the constructor throws
safeUrl(rawUrl) ==
  Bind(IndexOf(rawUrl, ":"), LAMBDA c :
  Bind(ToLowerCase(SubSeq(rawUrl, 1, c - 1)), LAMBDA scheme :
  Bind(Slice(rawUrl, c + 1), LAMBDA rest :
    IF rawUrl = "" \/ c <= 1 \/ RunLen(scheme, 1, Lower \cup Digits \cup {"+", "-", "."}) # Len(scheme)
    THEN BadUrl
    ELSE ParsedUrl(scheme, scheme \in {"http", "https"}, StartsWith(rest, "//"),
                   IF StartsWith(rest, "//") THEN Slice(rest, 3) ELSE rest))))

(***************************************************************************)
(* canonicalizeUrl and its helpers                                         *)
(***************************************************************************)
\* host.replace(/^www\./i, '').toLowerCase()
normalizeHost(host) ==
  ToLowerCase(IF StartsWith(ToLowerCase(host), "www.") THEN Slice(host, 5) ELSE host)

normalizePath(pathname) ==
  IF pathname = "" THEN "/"
  ELSE LET stripped == StripTrailingSlashes(pathname)
           cleaned == IF StartsWith(stripped, "/") THEN stripped ELSE "/" \o stripped
       IN cleaned

\* the loop body's three `continue` tests of sanitizeQueryParams for one key
DropsParam(key, host, path) ==
  LET lower == ToLowerCase(key)
  IN \/ \E i \in 1..Len(TRACKING_PARAM_PREFIXES) : StartsWith(lower, TRACKING_PARAM_PREFIXES[i])
     \/ lower \in TRACKING_PARAM_NAMES
     \/ Includes(host, "google.") /\ lower # "q" /\ (path = "/" \/ StartsWith(path, "/search"))
     \/ (EndsWith(host, "youtube.com") \/ EndsWith(host, "youtu.be")) /\ lower # "v" /\ lower # "list"
     \/ Includes(host, "amazon.") /\ lower # "k" /\ lower # "node"

\* for every entry of the iterated list (keys() yields a key once per entry) append
\* all values of that key
AppendAllPerKey(keys, source) ==
  Flatten(Materialize([i \in 1..Len(keys) |->
    Bind(GetAll(source, keys[i]), LAMBDA vals :
      Materialize([j \in 1..Len(vals) |-> <<keys[i], vals[j]>>]))]))

KeysOf(params) == Materialize([i \in 1..Len(params) |-> params[i][1]])

sanitizeQueryParams(searchParams, host, path) ==
  Bind(SelectSeq(KeysOf(searchParams), LAMBDA k : ~DropsParam(k, host, path)), LAMBDA keptKeys :
  Bind(AppendAllPerKey(keptKeys, searchParams), LAMBDA params :
  Bind(StableSort(KeysOf(params), LocaleLess), LAMBDA sortedKeys :
    AppendAllPerKey(sortedKeys, params))))

NoService == [hit |-> FALSE, host |-> "", path |-> "", params |-> <<>>]

Service(host, path, params) == [hit |-> TRUE, host |-> host, path |-> path, params |-> params]

\* the match of [cls]+-\d+ that starts at position j of s, "" if none
KeyAt(s, j, cls) ==
  Bind(RunLen(s, j, cls), LAMBDA r1 :
  Bind(RunLen(s, j + r1 + 1, Digits), LAMBDA r2 :
    IF r1 >= 1 /\ CharAt(s, j + r1) = "-" /\ r2 >= 1 THEN SubSeq(s, j, j + r1 + r2) ELSE ""))

\* first match of prefix([cls]+-\d+) in s: the captured key, "" if none
FindKey(s, prefix, cls) ==
  Bind({i \in 1..Len(s) : /\ i + Len(prefix) - 1 <= Len(s)
                          /\ SubSeq(s, i, i + Len(prefix) - 1) = prefix
                          /\ KeyAt(s, i + Len(prefix), cls) # ""}, LAMBDA hits :
    IF hits = {} THEN "" ELSE KeyAt(s, Min(hits) + Len(prefix), cls))

\* first match of prefix([cls]{least,}) in s: the captured run, "" if none
FindRun(s, prefix, cls, least) ==
  Bind({i \in 1..Len(s) : /\ i + Len(prefix) - 1 <= Len(s)
                          /\ SubSeq(s, i, i + Len(prefix) - 1) = prefix
                          /\ RunLen(s, i + Len(prefix), cls) >= least}, LAMBDA hits :
    IF hits = {} THEN ""
    ELSE Bind(Min(hits) + Len(prefix), LAMBDA j : SubSeq(s, j, j + RunLen(s, j, cls) - 1)))

\* the key captured by /\/jira\/software\/c\/projects\/[^/]+\/boards\/[^/]+\/(KEY)/ at i
BoardsKeyAt(s, i, cls) ==
  Bind("/jira/software/c/projects/", LAMBDA head :
  Bind(i + Len(head), LAMBDA a :
  Bind(FirstStop(Slice(s, a), {"/"}) - 1, LAMBDA aLen :
  Bind(a + aLen + Len("/boards/"), LAMBDA b :
  Bind(FirstStop(Slice(s, b), {"/"}) - 1, LAMBDA bLen :
    IF /\ i + Len(head) - 1 <= Len(s)
       /\ SubSeq(s, i, i + Len(head) - 1) = head
       /\ aLen >= 1
       /\ b - 1 <= Len(s)
       /\ SubSeq(s, a + aLen, b - 1) = "/boards/"
       /\ bLen >= 1
       /\ CharAt(s, b + bLen) = "/"
    THEN KeyAt(s, b + bLen + 1, cls) ELSE "")))))

\* /\/(?:browse|jira\/software\/c\/projects\/[^/]+\/boards\/[^/]+)\/([A-Z0-9]+-\d+)/i
JiraKeyAt(s, i, cls) ==
  IF i + 7 <= Len(s) /\ SubSeq(s, i, i + 7) = "/browse/" /\ KeyAt(s, i + 8, cls) # ""
  THEN KeyAt(s, i + 8, cls) ELSE BoardsKeyAt(s, i, cls)

FindJiraKey(s) ==
  Bind({i \in 1..Len(s) : JiraKeyAt(s, i, Upper \cup Lower \cup Digits) # ""}, LAMBDA hits :
    IF hits = {} THEN "" ELSE JiraKeyAt(s, Min(hits), Upper \cup Lower \cup Digits))

\* parts[i] of a JavaScript array: "" stands for undefined
Part(parts, i) == IF i <= Len(parts) THEN parts[i] ELSE ""

YoutuBe(original, host, path) ==
  Bind(Split(IF StartsWith(original.pathname, "/") THEN Slice(original.pathname, 2)
             ELSE original.pathname, "&")[1], LAMBDA id :
    IF EndsWith(host, "youtu.be") /\ id # ""
    THEN Service("youtube.com", "/watch", SingleParam("v", id)) ELSE NoService)

YouTube(original, host, path) ==
  Bind(Get(original.searchParams, "v"), LAMBDA videoId :
  Bind(Get(original.searchParams, "list"), LAMBDA list :
    IF ~EndsWith(host, "youtube.com") THEN NoService
    ELSE IF StartsWith(path, "/watch") /\ Truthy(videoId)
      THEN Service("youtube.com", "/watch",
                   SingleParam("v", videoId) \o (IF Truthy(list) THEN SingleParam("list", list) ELSE <<>>))
    ELSE IF StartsWith(path, "/playlist") /\ Truthy(list)
      THEN Service("youtube.com", "/playlist", SingleParam("list", list))
    ELSE NoService))

\* the result of the first rule of a list that returns; hit = FALSE is `return null`
FirstHit(rules) ==
  IF \E i \in 1..Len(rules) : rules[i].hit
  THEN rules[Min({i \in 1..Len(rules) : rules[i].hit})]
  ELSE NoService

\* the docs.google.com and drive.google.com rules: /<kind>/<d>/<id>
IdPath(host, path, wantedHost, kinds, second) ==
  Bind(FilterBoolean(Split(path, "/")), LAMBDA parts :
    IF /\ host = wantedHost
       /\ \E k \in 1..Len(kinds) : Part(parts, 1) = kinds[k]
       /\ Part(parts, 2) = second
       /\ Part(parts, 3) # ""
    THEN Service(host, "/" \o parts[1] \o "/" \o second \o "/" \o parts[3], <<>>)
    ELSE NoService)

GoogleDocs(original, host, path) ==
  IdPath(host, path, "docs.google.com", <<"document", "spreadsheets", "presentation", "forms">>, "d")


GoogleDrive(original, host, path) ==
  FirstHit(<<IdPath(host, path, "drive.google.com", <<"file">>, "d"),
             IdPath(host, path, "drive.google.com", <<"drive">>, "folders")>>)

Gmail(original, host, path) ==
  Bind(Get(original.searchParams, "view"), LAMBDA view :
  Bind(Get(original.searchParams, "tab"), LAMBDA tab :
    IF host = "mail.google.com"
    THEN Service(host, "/mail",
                 (IF Truthy(view) THEN SingleParam("view", view) ELSE <<>>)
                 \o (IF Truthy(tab) THEN SingleParam("tab", tab) ELSE <<>>))
    ELSE NoService))

GITHUB_NUMBERED == <<"pull", "issues", "discussions", "commit">>

\* the pull / issues / discussions / commit / blob / tree rules on the tail of the path
GitHubTail(owner, repo, tail, parts) ==
  Bind({k \in 1..Len(GITHUB_NUMBERED) :
          StartsWith(tail, "/" \o GITHUB_NUMBERED[k] \o "/") /\ Part(parts, 3) # ""}, LAMBDA first :
    IF first # {}
      THEN Service("github.com",
                   "/" \o owner \o "/" \o repo \o "/" \o GITHUB_NUMBERED[Min(first)] \o "/" \o parts[3],
                   <<>>)
    ELSE IF StartsWith(tail, "/blob/") \/ StartsWith(tail, "/tree/")
      THEN Service("github.com",
                   "/" \o owner \o "/" \o repo \o "/" \o parts[2] \o "/"
                     \o (IF Part(parts, 3) # "" THEN parts[3] ELSE "main"), <<>>)
    ELSE NoService)

\* /^\/(.+?)\/(.+?)(?:\/|$)/ on path: p and q are the positions of the slashes that end
\* owner and repo
GitHub(original, host, path) ==
  Bind(IndexFrom(path, "/", 3), LAMBDA p :
  Bind(IF p = 0 THEN 0 ELSE IndexFrom(path, "/", p + 2), LAMBDA q :
  Bind(IF q = 0 THEN Slice(path, Len(path)) ELSE Slice(path, q), LAMBDA tail :
    IF ~EndsWith(host, "github.com") \/ ~(StartsWith(path, "/") /\ p # 0 /\ p + 1 <= Len(path))
    THEN NoService
    ELSE GitHubTail(SubSeq(path, 2, p - 1),
                    IF q = 0 THEN Slice(path, p + 1) ELSE SubSeq(path, p + 1, q - 1),
                    tail, Split(tail, "/")))))

Jira(original, host, path) ==
  Bind(FindJiraKey(original.pathname), LAMBDA key :
    IF (Includes(host, "atlassian.net") \/ EndsWith(host, "jira.com")) /\ key # ""
    THEN Service(host, "/browse/" \o ToUpperCase(key), <<>>) ELSE NoService)

Linear(original, host, path) ==
  Bind(FindKey(original.pathname, "/issue/", Upper), LAMBDA key :
    IF EndsWith(host, "linear.app") /\ key # ""
    THEN Service(host, "/issue/" \o ToUpperCase(key), <<>>) ELSE NoService)

YouTrack(original, host, path) ==
  Bind(FindKey(original.pathname, "/issue/", Upper \cup Lower \cup Digits \cup {"_"}), LAMBDA key :
    IF (EndsWith(host, "youtrack.cloud") \/ EndsWith(host, "myjetbrains.com")) /\ key # ""
    THEN Service(host, "/issue/" \o ToUpperCase(key), <<>>) ELSE NoService)

GoogleSearch(original, host, path) ==
  Bind(Get(original.searchParams, "q"), LAMBDA query :
    IF Includes(host, "google.") /\ (path = "/" \/ StartsWith(path, "/search")) /\ Truthy(query)
    THEN Service("google.com", "/search", SingleParam("q", query)) ELSE NoService)

Amazon(original, host, path) ==
  Bind(FindRun(original.pathname, "/dp/", Upper \cup Digits, 6), LAMBDA dp :
  Bind(FindRun(original.pathname, "/gp/product/", Upper \cup Digits, 6), LAMBDA product :
  Bind(Get(original.searchParams, "k"), LAMBDA keyword :
    IF ~Includes(host, "amazon.") THEN NoService
    ELSE IF dp # "" THEN Service(host, "/dp/" \o dp, <<>>)
    ELSE IF product # "" THEN Service(host, "/dp/" \o product, <<>>)
    ELSE IF StartsWith(original.pathname, "/s")
      THEN Service(host, "/s", IF Truthy(keyword) THEN SingleParam("k", keyword) ELSE <<>>)
    ELSE NoService)))

Ebay(original, host, path) ==
  Bind(FindRun(original.pathname, "/itm/", Digits, 1), LAMBDA item :
  Bind(Get(original.searchParams, "_nkw"), LAMBDA query :
    IF ~EndsWith(host, "ebay.com") THEN NoService
    ELSE IF item # "" THEN Service(host, "/itm/" \o item, <<>>)
    ELSE IF StartsWith(original.pathname, "/sch")
      THEN Service(host, "/sch", IF Truthy(query) THEN SingleParam("_nkw", query) ELSE <<>>)
    ELSE NoService))

Airbnb(original, host, path) ==
  Bind(Part(Split(original.pathname, "/"), 3), LAMBDA roomId :
    IF EndsWith(host, "airbnb.com") /\ StartsWith(original.pathname, "/rooms") /\ roomId # ""
    THEN Service(host, "/rooms/" \o roomId, <<>>) ELSE NoService)

\* path: original.pathname.replace(/\/$/, '') removes one trailing slash
Booking(original, host, path) ==
  IF EndsWith(host, "booking.com") /\ Includes(original.pathname, "/hotel/")
  THEN Service(host,
               IF EndsWith(original.pathname, "/")
               THEN SubSeq(original.pathname, 1, Len(original.pathname) - 1)
               ELSE original.pathname,
               <<>>)
  ELSE NoService

\* the rules that keep the first `count` path segments
LeadingSegments(original, host, suffixes, count) ==
  IF \E i \in 1..Len(suffixes) : EndsWith(host, suffixes[i])
  THEN Service(host, "/" \o Join(Take(FilterBoolean(Split(original.pathname, "/")), count), "/"), <<>>)
  ELSE NoService

Skyscanner(original, host, path) ==
  LeadingSegments(original, host, <<"skyscanner.net", "skyscanner.com">>, 5)

Spotify(original, host, path) == LeadingSegments(original, host, <<"open.spotify.com">>, 2)

AppleMusic(original, host, path) == LeadingSegments(original, host, <<"music.apple.com">>, 4)

\* the rules in the order of the source
applyServiceCanonicalization(original, base) ==
  FirstHit(<<YoutuBe(original, base.host, base.path), YouTube(original, base.host, base.path),
             GoogleDocs(original, base.host, base.path), GoogleDrive(original, base.host, base.path),
             Gmail(original, base.host, base.path), GitHub(original, base.host, base.path),
             Jira(original, base.host, base.path), Linear(original, base.host, base.path),
             YouTrack(original, base.host, base.path), GoogleSearch(original, base.host, base.path),
             Amazon(original, base.host, base.path), Ebay(original, base.host, base.path),
             Airbnb(original, base.host, base.path), Booking(original, base.host, base.path),
             Skyscanner(original, base.host, base.path), Spotify(original, base.host, base.path),
             AppleMusic(original, base.host, base.path)>>)

\* `https://${final.host}${path}` with the query string when there is one
CanonicalString(final) ==
  Bind(ParamsToString(final.params), LAMBDA queryString :
  Bind(IF final.path = "/" THEN "" ELSE final.path, LAMBDA path :
    IF queryString # "" THEN "https://" \o final.host \o path \o "?" \o queryString
    ELSE "https://" \o final.host \o path))

canonicalizeUrl(rawUrl) ==
  Bind(safeUrl(rawUrl), LAMBDA url :
    IF ~url.ok THEN Null
    ELSE IF url.protocol # "http:" /\ url.protocol # "https:" THEN rawUrl
    ELSE
      Bind(normalizeHost(url.hostname), LAMBDA normalizedHost :
      Bind(normalizePath(url.pathname), LAMBDA normalizedPath :
      Bind([hit |-> TRUE, host |-> normalizedHost, path |-> normalizedPath,
            params |-> sanitizeQueryParams(url.searchParams, normalizedHost, normalizedPath)],
           LAMBDA base :
      Bind(applyServiceCanonicalization(url, base), LAMBDA specialized :
        CanonicalString(IF specialized.hit THEN specialized ELSE base))))))

MULTI_LEVEL_TLDS ==
  {"co.uk", "ac.uk", "gov.uk", "ltd.uk", "me.uk", "org.uk", "plc.uk", "sch.uk", "co.jp",
   "ne.jp", "or.jp", "ac.jp", "ad.jp", "co.kr", "or.kr", "go.kr", "co.nz", "gov.nz",
   "ac.nz", "com.au", "gov.au", "edu.au", "net.au", "org.au", "com.br", "com.cn",
   "com.hk", "co.in", "firm.in", "gen.in", "ind.in", "co.za"}

\* parts.slice(-n).join('.')
LastLabels(parts, n) ==
  Join(SubSeq(parts, IF Len(parts) > n THEN Len(parts) - n + 1 ELSE 1, Len(parts)), ".")

getEffectiveDomain(host) ==
  Bind(Split(host, "."), LAMBDA parts :
    IF host = "" THEN Null
    ELSE IF Len(parts) <= 2 THEN host
    ELSE IF LastLabels(parts, 2) \in MULTI_LEVEL_TLDS THEN LastLabels(parts, 3)
    ELSE IF LastLabels(parts, 3) \in MULTI_LEVEL_TLDS THEN LastLabels(parts, 4)
    ELSE LastLabels(parts, 2))

extractDomain(rawUrl) ==
  Bind(safeUrl(rawUrl), LAMBDA url :
    IF ~url.ok THEN Null ELSE getEffectiveDomain(normalizeHost(url.hostname)))

(***************************************************************************)
(* computeDedupePlan                                                       *)
(*                                                                         *)
(* A tab snapshot is a record [id, title, url, pinned, audible, active,    *)
(* index, lastAccessed]; lastAccessed is <<>> when the browser reports no  *)
(* number and <<ms>> otherwise.                                            *)
(***************************************************************************)
\* Array.prototype.filter
Filter(seq, Test(_)) ==
  Bind(SortedInts({i \in 1..Len(seq) : Test(seq[i])}), LAMBDA keep :
    Materialize([k \in 1..Len(keep) |-> seq[keep[k]]]))

\* a faulty variant of scoreTab without the term for audible tabs
scoreTabIgnoringAudible(tab, preferPinned) ==
  (IF tab.active THEN 10000 * 1000 ELSE 0)
  + (IF preferPinned /\ tab.pinned THEN 8000 * 1000 ELSE 0)
  + (IF ~preferPinned /\ tab.pinned THEN 2000 * 1000 ELSE 0)
  + (IF tab.lastAccessed # <<>> THEN tab.lastAccessed[1] ELSE 0)
  + (100 - tab.index) * 1000

\* scoreTab in thousandths, so that lastAccessed / 1000 stays an integer
scoreTab(tab, preferPinned) ==
  (IF tab.active THEN 10000 * 1000 ELSE 0)
  + (IF tab.audible THEN 400 * 1000 ELSE 0)
  + (IF preferPinned /\ tab.pinned THEN 8000 * 1000 ELSE 0)
  + (IF ~preferPinned /\ tab.pinned THEN 2000 * 1000 ELSE 0)
  + (IF tab.lastAccessed # <<>> THEN tab.lastAccessed[1] ELSE 0)
  + (100 - tab.index) * 1000

\* a faulty variant of CanonicalKey that falls back on the raw URL of the tab
CanonicalKeyOfRawUrl(tab) ==
  Bind(canonicalizeUrl(tab.url), LAMBDA canonical :
    IF Truthy(canonical) THEN canonical ELSE tab.url)

\* const key = canonical || `id-${tab.id}`
CanonicalKey(tab) ==
  Bind(canonicalizeUrl(tab.url), LAMBDA canonical :
    IF Truthy(canonical) THEN canonical ELSE "id-" \o ToString(tab.id))

\* the entries of the Map canonicalGroups in insertion order: <<key, groupTabs>>
CanonicalGroups(tabs) ==
  Bind(Materialize([i \in 1..Len(tabs) |-> CanonicalKey(tabs[i])]), LAMBDA keys :
  Bind(SortedInts({i \in 1..Len(keys) : \A j \in 1..(i - 1) : keys[j] # keys[i]}), LAMBDA firsts :
    Materialize([g \in 1..Len(firsts) |->
      Bind(SortedInts({i \in 1..Len(keys) : keys[i] = keys[firsts[g]]}), LAMBDA members :
        <<keys[firsts[g]], Materialize([m \in 1..Len(members) |-> tabs[members[m]]])>>)])))

\* a faulty variant of CloseItem that names the duplicate itself in duplicateOf
CloseItemOfItself(dup, keeper) ==
  [id |-> dup.id, title |-> dup.title, url |-> dup.url,
   reason |-> "Duplicate of \"" \o keeper.title \o "\"",
   duplicateOf |-> dup.id, domain |-> extractDomain(dup.url)]

CloseItem(dup, keeper) ==
  [id |-> dup.id, title |-> dup.title, url |-> dup.url,
   reason |-> "Duplicate of \"" \o keeper.title \o "\"",
   duplicateOf |-> keeper.id, domain |-> extractDomain(dup.url)]

\* a faulty variant of KeepsDuplicate that lets pinned duplicates be closed
KeepsDuplicateNever(dup, preferences) == FALSE

\* if (preferences.preservePinned && dup.pinned): the duplicate is added to keepers
KeepsDuplicate(dup, preferences) == preferences.preservePinned /\ dup.pinned

\* one iteration of the loop over canonicalGroups.entries(): what it adds to keepers,
\* tabsToClose and duplicateSets
GroupPlan(key, groupTabs, preferences) ==
  IF Len(groupTabs) = 1
  THEN [keepers |-> {groupTabs[1].id}, tabsToClose |-> <<>>, duplicateSets |-> <<>>]
  ELSE
    Bind(StableSort(groupTabs, LAMBDA a, b : scoreTab(a, preferences.preservePinned)
                                              > scoreTab(b, preferences.preservePinned)),
         LAMBDA sorted :
    Bind(Filter(Tail(sorted), LAMBDA dup : ~KeepsDuplicate(dup, preferences)), LAMBDA closing :
      [keepers |-> {sorted[1].id}
                     \cup {sorted[i].id : i \in {j \in 2..Len(sorted) :
                                                   KeepsDuplicate(sorted[j], preferences)}},
       tabsToClose |-> Materialize([i \in 1..Len(closing) |-> CloseItem(closing[i], sorted[1])]),
       duplicateSets |-> <<[canonical |-> IF StartsWith(key, "id-") THEN Null ELSE key,
                            keeper |-> sorted[1], closing |-> Tail(sorted)]>>]))

\* survivorDomains after its construction loop, read at one domain
SurvivorCount(tabs, keepers, domain) ==
  Cardinality({i \in 1..Len(tabs) : tabs[i].id \in keepers /\ extractDomain(tabs[i].url) = domain})

\* a faulty variant of DomainFloor that closes every close candidate
DomainFloorOff(items, i, survivorDomains, keepers, filtered) ==
  [keepers |-> keepers, tabsToClose |-> items]

\* the loop `for (const item of tabsToClose)` of the keepAtLeastOnePerDomain block, from
\* item i on
RECURSIVE DomainFloor(_, _, _, _, _)
DomainFloor(items, i, survivorDomains, keepers, filtered) ==
  IF i > Len(items) THEN [keepers |-> keepers, tabsToClose |-> filtered]
  ELSE IF ~Truthy(items[i].domain)
    THEN DomainFloor(items, i + 1, survivorDomains, keepers, Append(filtered, items[i]))
  ELSE IF survivorDomains[items[i].domain] <= 0
    THEN DomainFloor(items, i + 1, survivorDomains, keepers \cup {items[i].id}, filtered)
  ELSE DomainFloor(items, i + 1, [survivorDomains EXCEPT ![items[i].domain] = @ - 1],
                   keepers, Append(filtered, items[i]))

\* the keepAtLeastOnePerDomain block
KeepOnePerDomain(tabs, items, keepers) ==
  DomainFloor(items, 1,
              [d \in {items[i].domain : i \in 1..Len(items)} |->
                 IF Truthy(d) THEN SurvivorCount(tabs, keepers, d) ELSE 0],
              keepers, <<>>)

\* the plan from the results of the loop over the canonical groups
PlanOf(tabs, preferences, plans) ==
  Bind(IF preferences.keepAtLeastOnePerDomain
       THEN KeepOnePerDomain(tabs, Flatten(Materialize([g \in 1..Len(plans) |-> plans[g].tabsToClose])),
                             UNION {plans[g].keepers : g \in 1..Len(plans)})
       ELSE [keepers |-> UNION {plans[g].keepers : g \in 1..Len(plans)},
             tabsToClose |-> Flatten(Materialize([g \in 1..Len(plans) |-> plans[g].tabsToClose]))],
       LAMBDA final :
    [computed |-> TRUE,
     tabsToClose |-> final.tabsToClose,
     survivors |-> Filter(tabs, LAMBDA tab :
                     /\ tab.id \in final.keepers
                     /\ \A k \in 1..Len(final.tabsToClose) : final.tabsToClose[k].id # tab.id),
     duplicateSets |-> Flatten(Materialize([g \in 1..Len(plans) |-> plans[g].duplicateSets]))])

computeDedupePlan(tabs, preferences) ==
  Bind(CanonicalGroups(tabs), LAMBDA groups :
    PlanOf(tabs, preferences,
           Materialize([g \in 1..Len(groups) |-> GroupPlan(groups[g][1], groups[g][2], preferences)])))

(***************************************************************************)
(* groupByRules: regular expressions, labels and tokens                    *)
(*                                                                         *)
(* A regular expression of the engine is a record [kind, alts]: the shape  *)
(* of its pattern and the literal texts in it.  All of them carry the 'i'  *)
(* flag.                                                                   *)
(*   "host"    hostPattern(h):  (?:^|\.)h$                                  *)
(*   "literal" a pattern without metacharacters, or a|b of such            *)
(*   "suffix"  text$                                                       *)
(*   "prefix"  ^/(?:a|b)                                                   *)
(*   "tld"     text[a-z.]+$                                                *)
(*   "none"    no expression (undefined)                                   *)
(***************************************************************************)
RegExp(kind, alts) == [kind |-> kind, alts |-> alts]

NoRegex == RegExp("none", <<>>)

hostPattern(host) == RegExp("host", <<host>>)

\* text[a-z.]+$ on a lower-case string
TestTld(lower, text) ==
  \E i \in 1..Len(lower) :
    /\ i + Len(text) <= Len(lower)
    /\ SubSeq(lower, i, i + Len(text) - 1) = text
    /\ RunLen(lower, i + Len(text), Lower \cup {"."}) = Len(lower) - (i + Len(text)) + 1

\* RegExp.prototype.test on the lower-case form of the string
TestLower(regex, lower) ==
  CASE regex.kind = "host" ->
         lower = ToLowerCase(regex.alts[1]) \/ EndsWith(lower, "." \o ToLowerCase(regex.alts[1]))
    [] regex.kind = "literal" ->
         \E k \in 1..Len(regex.alts) : Includes(lower, ToLowerCase(regex.alts[k]))
    [] regex.kind = "suffix" -> EndsWith(lower, regex.alts[1])
    [] regex.kind = "prefix" -> \E k \in 1..Len(regex.alts) : StartsWith(lower, regex.alts[k])
    [] regex.kind = "tld" -> TestTld(lower, regex.alts[1])
    [] OTHER -> FALSE

Test(regex, s) == TestLower(regex, ToLowerCase(s))

\* label.trim().replace(/\s+/g, ' ') and the cut to 28 characters; "~" stands for the
\* one-character ellipsis
truncateLabel(label) ==
  Bind(Join(FilterBoolean(Split(IF label = Null THEN "" ELSE label, " ")), " "), LAMBDA trimmed :
    IF Len(trimmed) <= 28 THEN trimmed ELSE SubSeq(trimmed, 1, 25) \o "~")

STOP_WORDS ==
  {"a", "an", "and", "are", "as", "at", "be", "but", "by", "for", "from", "has", "have",
   "in", "is", "it", "its", "of", "on", "or", "the", "to", "was", "with", "via", "that",
   "this", "your", "you", "me", "we", "our", "they", "their", "them", "http", "https", "www"}

\* if (token.endsWith(suffix)) token = token.slice(0, -suffix.length)
StripSuffix(token, suffix) ==
  IF EndsWith(token, suffix) THEN SubSeq(token, 1, Len(token) - Len(suffix)) ELSE token

stemToken(token) ==
  IF Len(token) <= 3 THEN token
  ELSE StripSuffix(StripSuffix(StripSuffix(StripSuffix(StripSuffix(StripSuffix(
         token, "ing"), "ers"), "er"), "ed"), "es"), "s")

\* normalized.replace(/[^a-z0-9]+/g, ' ')
BlankNonAlnum(s) ==
  Join(Materialize([i \in 1..Len(s) |->
         IF SubSeq(s, i, i) \in Lower \cup Digits THEN SubSeq(s, i, i) ELSE " "]), "")

\* the tokens that buildTokenFrequency counts, in the order of the text
CountedTokens(tokens) ==
  Bind(SelectSeq(tokens, LAMBDA t : t \notin STOP_WORDS), LAMBDA kept :
    SelectSeq(Materialize([i \in 1..Len(kept) |-> stemToken(kept[i])]),
              LAMBDA t : t # "" /\ t \notin STOP_WORDS))

\* the Map freq as a function from the counted tokens to their numbers of occurrences
buildTokenFrequency(title, host, path) ==
  Bind(CountedTokens(FilterBoolean(Split(BlankNonAlnum(ToLowerCase(
         Join(Split(host, "."), " ") \o " " \o Join(Split(path, "/"), " ") \o " " \o title)), " "))),
       LAMBDA counted :
    [t \in {counted[i] : i \in 1..Len(counted)} |->
       Cardinality({i \in 1..Len(counted) : counted[i] = t})] @@ <<>>)

\* frequency.get(keyword) || 0
Frequency(frequency, keyword) == IF keyword \in DOMAIN frequency THEN frequency[keyword] ELSE 0

\* the fields of the classification record that the grouping reads; tab.index is kept
\* as index
prepareTabForClassification(tab) ==
  Bind(safeUrl(tab.url), LAMBDA url :
  Bind(IF url.ok THEN normalizeHost(url.hostname) ELSE "", LAMBDA host :
  Bind(IF url.ok THEN normalizePath(url.pathname) ELSE "/", LAMBDA path :
    [id |-> tab.id, index |-> tab.index, host |-> host, path |-> path,
     title |-> IF tab.title = Null THEN "" ELSE tab.title,
     tokenFrequency |-> buildTokenFrequency(IF tab.title = Null THEN "" ELSE tab.title, host, path)])))

(***************************************************************************)
(* groupByRules: the category catalog                                      *)
(*                                                                         *)
(* Weights, thresholds and scores are in hundredths, so that the weight    *)
(* 1.5 and the term priority * 0.01 of scoreCategory stay integers.        *)
(***************************************************************************)
CATEGORY_ORDER ==
  <<"Work/PM", "Dev/Code", "Cloud/Infra", "Docs/Files", "Comms", "Research/Learning",
    "Maps/Travel", "Shopping", "News/Media", "Other">>

\* CATEGORY_ORDER.map((name, index) => [name, CATEGORY_ORDER.length - index])
CATEGORY_PRIORITY ==
  [name \in {CATEGORY_ORDER[i] : i \in 1..Len(CATEGORY_ORDER)} |->
     Len(CATEGORY_ORDER) + 1 - (CHOOSE i \in 1..Len(CATEGORY_ORDER) : CATEGORY_ORDER[i] = name)] @@ <<>>

\* CATEGORY_PRIORITY.get(name) || 0
PriorityOrZero(name) == IF name \in DOMAIN CATEGORY_PRIORITY THEN CATEGORY_PRIORITY[name] ELSE 0

CATEGORY_RULE_DEFINITIONS ==
  << [category |-> "Work/PM",
      hosts |-> <<<<"Jira", "atlassian.net">>, <<"Jira", "jira.com">>,
                  <<"Linear", "linear.app">>, <<"Trello", "trello.com">>,
                  <<"Asana", "asana.com">>, <<"Monday", "monday.com">>,
                  <<"ClickUp", "clickup.com">>, <<"Notion", "notion.so">>,
                  <<"Notion", "notion.site">>, <<"Confluence", "confluence.com">>,
                  <<"Shortcut", "app.shortcut.com">>, <<"Productboard", "productboard.com">>>>,
      hostRegexes |-> <<>>,
      paths |-> <<>>],
     [category |-> "Dev/Code",
      hosts |-> <<<<"GitHub", "github.com">>, <<"GitHub Gist", "gist.github.com">>,
                  <<"GitLab", "gitlab.com">>, <<"Bitbucket", "bitbucket.org">>,
                  <<"Azure DevOps", "dev.azure.com">>, <<"Sourcegraph", "sourcegraph.com">>,
                  <<"npm", "npmjs.com">>, <<"PyPI", "pypi.org">>,
                  <<"RubyGems", "rubygems.org">>, <<"pkg.go.dev", "pkg.go.dev">>,
                  <<"crates.io", "crates.io">>, <<"Docker Hub", "hub.docker.com">>>>,
      hostRegexes |-> <<>>,
      paths |-> <<>>],
     [category |-> "Cloud/Infra",
      hosts |-> <<<<"AWS Console", "console.aws.amazon.com">>,
                  <<"GCP Console", "console.cloud.google.com">>,
                  <<"GCP", "cloud.google.com">>, <<"Azure Portal", "portal.azure.com">>,
                  <<"Cloudflare", "cloudflare.com">>, <<"Vercel", "vercel.com">>,
                  <<"Render", "render.com">>, <<"Railway", "railway.app">>,
                  <<"Fly.io", "fly.io">>, <<"Heroku", "heroku.com">>,
                  <<"Supabase", "supabase.com">>, <<"PlanetScale", "planetscale.com">>,
                  <<"Datadog", "datadoghq.com">>, <<"New Relic", "newrelic.com">>,
                  <<"Grafana", "grafana.com">>, <<"Sentry", "sentry.io">>,
                  <<"PagerDuty", "pagerduty.com">>, <<"CircleCI", "circleci.com">>,
                  <<"Buildkite", "buildkite.com">>>>,
      hostRegexes |-> <<<<"AWS", RegExp("suffix", <<"aws.amazon.com">>)>>,
                        <<"AWS", RegExp("suffix", <<"amazonaws.com">>)>>>>,
      paths |-> <<>>],
     [category |-> "Docs/Files",
      hosts |-> <<<<"Google Docs", "docs.google.com">>,
                  <<"Google Drive", "drive.google.com">>, <<"Dropbox", "dropbox.com">>,
                  <<"Box", "box.com">>, <<"OneDrive", "onedrive.live.com">>,
                  <<"SharePoint", "sharepoint.com">>, <<"Office 365", "office.com">>>>,
      hostRegexes |-> <<>>,
      paths |-> <<>>],
     [category |-> "Comms",
      hosts |-> <<<<"Gmail", "mail.google.com">>, <<"Outlook", "outlook.office.com">>,
                  <<"Outlook", "outlook.live.com">>, <<"Teams", "teams.microsoft.com">>,
                  <<"Slack", "slack.com">>, <<"Discord", "discord.com">>,
                  <<"Telegram", "web.telegram.org">>, <<"WhatsApp", "web.whatsapp.com">>,
                  <<"Zoom", "zoom.us">>, <<"Google Meet", "meet.google.com">>,
                  <<"Google Calendar", "calendar.google.com">>,
                  <<"Calendly", "calendly.com">>>>,
      hostRegexes |-> <<>>,
      paths |-> <<>>],
     [category |-> "Research/Learning",
      hosts |-> <<<<"Google Scholar", "scholar.google.com">>, <<"arXiv", "arxiv.org">>,
                  <<"Stack Overflow", "stackoverflow.com">>,
                  <<"Stack Exchange", "stackexchange.com">>,
                  <<"MDN", "developer.mozilla.org">>, <<"Wikipedia", "wikipedia.org">>,
                  <<"Medium", "medium.com">>, <<"Dev.to", "dev.to">>,
                  <<"freeCodeCamp", "freecodecamp.org">>>>,
      hostRegexes |-> <<>>,
      paths |-> <<[label |-> "Google Search", host |-> "google.com",
                   path |-> RegExp("prefix", <<"/search", "/webhp">>)]>>],
     [category |-> "Maps/Travel",
      hosts |-> <<<<"Google Maps", "maps.google.com">>, <<"Booking", "booking.com">>,
                  <<"Airbnb", "airbnb.com">>, <<"Expedia", "expedia.com">>,
                  <<"Kayak", "kayak.com">>, <<"Skyscanner", "skyscanner.com">>,
                  <<"Skyscanner", "skyscanner.net">>, <<"Uber", "uber.com">>,
                  <<"Lyft", "lyft.com">>, <<"Tripadvisor", "tripadvisor.com">>>>,
      hostRegexes |-> <<>>,
      paths |-> <<[label |-> "Google Maps", host |-> "google.com", path |-> RegExp("prefix", <<"/maps">>)]>>],
     [category |-> "Shopping",
      hosts |-> <<<<"Amazon", "amazon.com">>, <<"eBay", "ebay.com">>,
                  <<"AliExpress", "aliexpress.com">>, <<"Etsy", "etsy.com">>,
                  <<"Walmart", "walmart.com">>, <<"Target", "target.com">>,
                  <<"Best Buy", "bestbuy.com">>, <<"Costco", "costco.com">>>>,
      hostRegexes |-> <<<<"Amazon", RegExp("tld", <<"amazon.">>)>>>>,
      paths |-> <<[label |-> "Amazon Search", host |-> "amazon.com", path |-> RegExp("prefix", <<"/s">>)]>>],
     [category |-> "News/Media",
      hosts |-> <<<<"Hacker News", "news.ycombinator.com">>, <<"Reddit", "reddit.com">>,
                  <<"TechCrunch", "techcrunch.com">>, <<"The Verge", "theverge.com">>,
                  <<"NYTimes", "nytimes.com">>, <<"Washington Post", "washingtonpost.com">>,
                  <<"BBC", "bbc.com">>, <<"CNN", "cnn.com">>, <<"YouTube", "youtube.com">>,
                  <<"Netflix", "netflix.com">>, <<"Hulu", "hulu.com">>,
                  <<"Spotify", "spotify.com">>>>,
      hostRegexes |-> <<>>,
      paths |-> <<>>]>>

CATEGORY_KEYWORD_DEFINITIONS ==
  << [category |-> "Work/PM",
      keywords |-> <<<<"jira", 400>>, <<"issue", 300>>, <<"ticket", 300>>,
                      <<"board", 200>>, <<"sprint", 200>>, <<"backlog", 200>>,
                      <<"project", 200>>, <<"task", 200>>, <<"kanban", 200>>,
                      <<"roadmap", 200>>, <<"story", 200>>, <<"milestone", 200>>,
                      <<"notion", 150>>, <<"asana", 300>>, <<"trello", 300>>,
                      <<"monday", 300>>, <<"clickup", 300>>, <<"productboard", 200>>>>,
      hostHints |-> <<"jira", "atlassian", "linear", "trello", "asana", "monday",
                       "notion", "clickup", "shortcut", "productboard">>,
      pathHints |-> <<"board", "sprint", "project", "kanban">>,
      titleHints |-> <<>>,
      threshold |-> 400],
     [category |-> "Dev/Code",
      keywords |-> <<<<"git", 300>>, <<"repo", 300>>, <<"pull", 300>>, <<"merge", 300>>,
                      <<"commit", 300>>, <<"branch", 200>>, <<"code", 200>>,
                      <<"diff", 200>>, <<"issue", 200>>, <<"pr", 300>>, <<"review", 200>>,
                      <<"package", 200>>, <<"library", 200>>, <<"sdk", 200>>,
                      <<"api", 200>>, <<"ci", 200>>>>,
      hostHints |-> <<"github", "gitlab", "bitbucket", "sourcegraph", "npm", "pypi",
                       "rubygems", "crates", "docker">>,
      pathHints |-> <<"pull", "merge", "commit", "blob", "tree">>,
      titleHints |-> <<>>,
      threshold |-> 400],
     [category |-> "Cloud/Infra",
      keywords |-> <<<<"cloud", 300>>, <<"aws", 300>>, <<"gcp", 300>>, <<"azure", 300>>,
                      <<"console", 200>>, <<"cluster", 200>>, <<"kube", 300>>,
                      <<"kubernet", 300>>, <<"deploy", 200>>, <<"infrastructure", 300>>,
                      <<"instance", 200>>, <<"server", 200>>, <<"pipeline", 200>>,
                      <<"metric", 200>>, <<"monitor", 200>>, <<"log", 200>>,
                      <<"alert", 200>>>>,
      hostHints |-> <<"aws", "amazonaws", "cloud", "azure", "cloudflare", "vercel",
                       "render", "railway", "fly.io", "heroku", "supabase", "planetscale",
                       "datadog", "newrelic", "grafana", "sentry", "pagerduty", "circleci",
                       "buildkite">>,
      pathHints |-> <<"deploy", "pipeline", "console">>,
      titleHints |-> <<>>,
      threshold |-> 400],
     [category |-> "Docs/Files",
      keywords |-> <<<<"doc", 300>>, <<"docs", 300>>, <<"sheet", 300>>, <<"slide", 300>>,
                      <<"drive", 300>>, <<"file", 200>>, <<"folder", 200>>, <<"pdf", 200>>,
                      <<"presentation", 200>>, <<"spreadsheet", 300>>, <<"notebook", 200>>,
                      <<"note", 200>>>>,
      hostHints |-> <<"docs.google", "drive.google", "dropbox", "box.com", "onedrive",
                       "sharepoint", "office.com">>,
      pathHints |-> <<"document", "presentation", "spreadsheets">>,
      titleHints |-> <<>>,
      threshold |-> 400],
     [category |-> "Comms",
      keywords |-> <<<<"mail", 300>>, <<"inbox", 300>>, <<"calendar", 300>>,
                      <<"meeting", 200>>, <<"meet", 200>>, <<"chat", 300>>,
                      <<"message", 300>>, <<"call", 200>>, <<"video", 200>>,
                      <<"slack", 300>>, <<"teams", 300>>, <<"invite", 200>>,
                      <<"reply", 200>>>>,
      hostHints |-> <<"mail.google", "outlook", "teams", "slack", "discord", "telegram",
                       "whatsapp", "zoom", "meet.google", "calendar.google", "calendly">>,
      pathHints |-> <<>>,
      titleHints |-> <<"meeting", "standup", "1:1">>,
      threshold |-> 400],
     [category |-> "Research/Learning",
      keywords |-> <<<<"search", 300>>, <<"learn", 300>>, <<"tutorial", 300>>,
                      <<"guide", 300>>, <<"reference", 300>>, <<"docs", 200>>,
                      <<"wiki", 300>>, <<"stack", 200>>, <<"question", 200>>,
                      <<"answer", 200>>, <<"blog", 200>>, <<"analysis", 200>>,
                      <<"how", 200>>>>,
      hostHints |-> <<"google", "scholar", "arxiv", "stackoverflow", "stackexchange",
                       "mozilla", "wikipedia", "medium", "dev.to", "freecodecamp">>,
      pathHints |-> <<"search", "learn">>,
      titleHints |-> <<>>,
      threshold |-> 300],
     [category |-> "Maps/Travel",
      keywords |-> <<<<"map", 300>>, <<"maps", 300>>, <<"travel", 300>>, <<"trip", 300>>,
                      <<"flight", 300>>, <<"hotel", 300>>, <<"booking", 300>>,
                      <<"airbnb", 300>>, <<"route", 200>>, <<"direction", 200>>,
                      <<"itinerary", 200>>, <<"ride", 200>>, <<"airport", 200>>>>,
      hostHints |-> <<"maps.google", "booking", "airbnb", "expedia", "kayak",
                       "skyscanner", "uber", "lyft", "tripadvisor">>,
      pathHints |-> <<"maps", "travel">>,
      titleHints |-> <<>>,
      threshold |-> 300],
     [category |-> "Shopping",
      keywords |-> <<<<"buy", 300>>, <<"cart", 300>>, <<"checkout", 300>>,
                      <<"order", 300>>, <<"product", 300>>, <<"price", 200>>,
                      <<"deal", 200>>, <<"sale", 200>>, <<"shop", 200>>,
                      <<"wishlist", 200>>, <<"shipping", 200>>, <<"basket", 200>>>>,
      hostHints |-> <<"amazon", "ebay", "aliexpress", "etsy", "walmart", "target",
                       "bestbuy", "costco">>,
      pathHints |-> <<"cart", "checkout">>,
      titleHints |-> <<>>,
      threshold |-> 300],
     [category |-> "News/Media",
      keywords |-> <<<<"news", 300>>, <<"headline", 300>>, <<"article", 300>>,
                      <<"review", 300>>, <<"reddit", 300>>, <<"hn", 200>>,
                      <<"video", 300>>, <<"watch", 300>>, <<"stream", 300>>,
                      <<"episode", 200>>, <<"podcast", 200>>, <<"feed", 200>>,
                      <<"breaking", 300>>, <<"story", 200>>>>,
      hostHints |-> <<"news.ycombinator", "reddit", "techcrunch", "verge", "nytimes",
                       "washingtonpost", "bbc", "cnn", "youtube", "netflix", "hulu",
                       "spotify">>,
      pathHints |-> <<>>,
      titleHints |-> <<"breaking", "episode", "season">>,
      threshold |-> 300]>>

CATEGORY_NEIGHBORS ==
  ("Work/PM" :> <<"Dev/Code", "Docs/Files", "Comms">>)
  @@ ("Dev/Code" :> <<"Cloud/Infra", "Research/Learning", "Work/PM">>)
  @@ ("Cloud/Infra" :> <<"Dev/Code", "Comms", "Work/PM">>)
  @@ ("Docs/Files" :> <<"Work/PM", "Comms", "Research/Learning">>)
  @@ ("Comms" :> <<"Work/PM", "Docs/Files", "Cloud/Infra">>)
  @@ ("Research/Learning" :> <<"Dev/Code", "Docs/Files", "News/Media">>)
  @@ ("Maps/Travel" :> <<"Shopping", "News/Media", "Other">>)
  @@ ("Shopping" :> <<"News/Media", "Maps/Travel", "Other">>)
  @@ ("News/Media" :> <<"Research/Learning", "Comms", "Other">>)
  @@ ("Other" :> <<"News/Media", "Shopping", "Maps/Travel">>)

\* a rule of the catalog before compilation: match.host is "" and match.hostRegex and
\* match.path are NoRegex where the rule has none
CatalogRule(category, label, host, hostRegex, path) ==
  [name |-> category, category |-> category, label |-> label, priority |-> 800,
   host |-> host, hostRegex |-> hostRegex, path |-> path]

\* the rules that buildRulesCatalog pushes for one category
RulesOfCategory(definition) ==
  Materialize([i \in 1..Len(definition.hosts) |->
     CatalogRule(definition.category, definition.hosts[i][1], definition.hosts[i][2], NoRegex, NoRegex)])
  \o Materialize([i \in 1..Len(definition.hostRegexes) |->
     CatalogRule(definition.category, definition.hostRegexes[i][1], "",
                 definition.hostRegexes[i][2], NoRegex)])
  \o Materialize([i \in 1..Len(definition.paths) |->
     CatalogRule(definition.category, definition.paths[i].label, definition.paths[i].host, NoRegex,
                 definition.paths[i].path)])

buildRulesCatalog ==
  Flatten(Materialize([c \in 1..Len(CATEGORY_RULE_DEFINITIONS) |->
            RulesOfCategory(CATEGORY_RULE_DEFINITIONS[c])]))

resolveHostRegex(value) == IF value = "" THEN NoRegex ELSE hostPattern(value)

\* a compiled rule; user is TRUE for the rules with the deriveName of compileUserRules
compileSingleRule(rule, index) ==
  [index |-> index, name |-> rule.name, priority |-> rule.priority,
   host |-> IF rule.hostRegex # NoRegex THEN rule.hostRegex ELSE resolveHostRegex(rule.host),
   path |-> rule.path, title |-> NoRegex, category |-> rule.category, label |-> rule.label,
   user |-> FALSE]

\* the entry null of a list of user rules
NullRule == [name |-> Null, host |-> NoRegex, path |-> NoRegex, title |-> NoRegex, priority |-> <<>>]

\* compileUserRules throws: rule.host of the entry null is a TypeError, new RegExp of a
\* pattern that is no regular expression (kind "invalid") is a SyntaxError
UserRulesThrow(userRules) ==
  \E k \in 1..Len(userRules) :
    \/ userRules[k] = NullRule
    \/ "invalid" \in {userRules[k].host.kind, userRules[k].path.kind, userRules[k].title.kind}

HasPattern(rule) == rule.host # NoRegex \/ rule.path # NoRegex \/ rule.title # NoRegex

compileRuleCatalog(catalog) ==
  StableSort(SelectSeq(Materialize([i \in 1..Len(catalog) |-> compileSingleRule(catalog[i], i - 1)]),
                       HasPattern),
             LAMBDA a, b : a.priority > b.priority \/ (a.priority = b.priority /\ a.index < b.index))

RULES_CATALOG == buildRulesCatalog

COMPILED_RULES == compileRuleCatalog(RULES_CATALOG)

\* a user rule is a record [name, host, path, title, priority]: host, path and title
\* are regular expressions or NoRegex, priority is <<>> or <<number>>
compileUserRules(userRules) ==
  Bind(SelectSeq(userRules, HasPattern), LAMBDA valid :
    Materialize([i \in 1..Len(valid) |->
      [index |-> i - 1, name |-> truncateLabel(valid[i].name),
       priority |-> IF valid[i].priority = <<>> THEN 1500 ELSE valid[i].priority[1],
       host |-> valid[i].host, path |-> valid[i].path, title |-> valid[i].title,
       category |-> truncateLabel(valid[i].name), label |-> truncateLabel(valid[i].name),
       user |-> TRUE]]))

\* String.prototype.trim for blanks
Trim(s) ==
  LET keep == {i \in 1..Len(s) : SubSeq(s, i, i) # " "}
  IN IF keep = {} THEN "" ELSE SubSeq(s, Min(keep), Max(keep))

normalizeCategoryName(name) ==
  IF ~Truthy(name) THEN "Other"
  ELSE IF Trim(name) \in DOMAIN CATEGORY_PRIORITY THEN Trim(name) ELSE "Other"

\* the three tests of the loop of matchCompiledRule
RuleMatches(rule, tabInfo) ==
  /\ rule.host = NoRegex \/ Test(rule.host, tabInfo.host)
  /\ rule.title = NoRegex \/ Test(rule.title, tabInfo.title)
  /\ rule.path = NoRegex \/ Test(rule.path, tabInfo.path)

NoMatch == [matched |-> FALSE, name |-> "", ruleName |-> "", category |-> ""]

\* the object matchCompiledRule returns for the rule that matched; deriveName of a user
\* rule yields its name, a catalog rule has no deriveName
MatchOf(rule) ==
  Bind(normalizeCategoryName(IF Truthy(rule.category) THEN rule.category ELSE rule.name), LAMBDA category :
    [matched |-> TRUE,
     name |-> IF rule.user /\ Truthy(rule.name) THEN truncateLabel(rule.name)
              ELSE truncateLabel(category),
     ruleName |-> IF Truthy(rule.label) THEN rule.label ELSE rule.name,
     category |-> category])

\* a faulty variant of matchCompiledRule in which a user rule gives way to a catalog rule
\* of a higher priority that matches the tab too
matchCompiledRuleByPriority(rules, tabInfo) ==
  Bind({i \in 1..Len(rules) : RuleMatches(rules[i], tabInfo)}, LAMBDA hits :
    IF hits = {} THEN NoMatch
    ELSE IF /\ rules[Min(hits)].user
            /\ \E k \in 1..Len(COMPILED_RULES) :
                 /\ RuleMatches(COMPILED_RULES[k], tabInfo)
                 /\ COMPILED_RULES[k].priority > rules[Min(hits)].priority
         THEN NoMatch
         ELSE MatchOf(rules[Min(hits)]))

matchCompiledRule(rules, tabInfo) ==
  Bind({i \in 1..Len(rules) : RuleMatches(rules[i], tabInfo)}, LAMBDA hits :
    IF hits = {} THEN NoMatch ELSE MatchOf(rules[Min(hits)]))

matchCategoryRule(tabInfo) == matchCompiledRule(COMPILED_RULES, tabInfo)

(***************************************************************************)
(* groupByRules: keyword scoring and the limit on the number of categories *)
(*                                                                         *)
(* A Map is the sequence of its entries in insertion order.  An assignment *)
(* is a record [id, index, category, initialCategory, method, rule,        *)
(* mergeHistory]; index is info.tab.index, rule is Null when there is none.*)
(***************************************************************************)
\* the least position of S that no position of S is better than; 0 when S is empty.
\* It is the result of a loop that replaces its best element on strict improvement.
FirstBest(S, Better(_, _)) ==
  IF S = {} THEN 0 ELSE Min({i \in S : \A j \in S : ~Better(j, i)})

RECURSIVE SumSeq(_)
SumSeq(s) == IF s = <<>> THEN 0 ELSE Head(s) + SumSeq(Tail(s))

\* the position of the first record of the sequence with the name, 0 if none
FindNamed(records, name) ==
  IF \E i \in 1..Len(records) : records[i].name = name
  THEN Min({i \in 1..Len(records) : records[i].name = name}) ELSE 0

\* the entry buildKeywordMap sets for one category
KeywordConfig(definition) ==
  [category |-> definition.category, keywords |-> definition.keywords,
   hostHints |-> definition.hostHints, pathHints |-> definition.pathHints,
   titleHints |-> Materialize([i \in 1..Len(definition.titleHints) |->
                                 RegExp("literal", <<definition.titleHints[i]>>)]),
   hostWeight |-> 300, pathWeight |-> 150, titleWeight |-> 200,
   threshold |-> definition.threshold, priority |-> PriorityOrZero(definition.category)]

buildKeywordMap ==
  Materialize([c \in 1..Len(CATEGORY_KEYWORD_DEFINITIONS) |->
                 KeywordConfig(CATEGORY_KEYWORD_DEFINITIONS[c])])

KEYWORD_MAP == buildKeywordMap

\* `score` of scoreCategory for one category after the loops over keywords and hints
HintScore(config, tabInfo) ==
  SumSeq(Materialize([k \in 1..Len(config.keywords) |->
           Frequency(tabInfo.tokenFrequency, config.keywords[k][1]) * config.keywords[k][2]]))
  + config.hostWeight
      * Cardinality({h \in 1..Len(config.hostHints) : Includes(tabInfo.host, config.hostHints[h])})
  + config.pathWeight
      * Cardinality({h \in 1..Len(config.pathHints) : Includes(tabInfo.path, config.pathHints[h])})
  + config.titleWeight
      * Cardinality({h \in 1..Len(config.titleHints) : Test(config.titleHints[h], tabInfo.title)})

\* best of scoreCategory from the scores of the categories: `adjusted` is
\* score + priority * 0.01
BestCategory(scores) ==
  Bind(FirstBest({c \in 1..Len(KEYWORD_MAP) :
                    KEYWORD_MAP[c].category # "Other" /\ scores[c] >= KEYWORD_MAP[c].threshold},
                 LAMBDA j, i :
                   \/ scores[j] + KEYWORD_MAP[j].priority > scores[i] + KEYWORD_MAP[i].priority
                   \/ /\ scores[j] + KEYWORD_MAP[j].priority = scores[i] + KEYWORD_MAP[i].priority
                      /\ KEYWORD_MAP[j].priority > KEYWORD_MAP[i].priority),
       LAMBDA best :
    IF best = 0 THEN [category |-> "Other", score |-> 0]
    ELSE [category |-> KEYWORD_MAP[best].category, score |-> scores[best] + KEYWORD_MAP[best].priority])

scoreCategory(tabInfo) ==
  BestCategory(Materialize([c \in 1..Len(KEYWORD_MAP) |-> HintScore(KEYWORD_MAP[c], tabInfo)]))

createCategoryAssignment(info, category, method, rule) ==
  [id |-> info.id, index |-> info.index, category |-> category, initialCategory |-> category,
   method |-> method, rule |-> IF Truthy(rule) THEN rule ELSE Null, mergeHistory |-> <<>>]

\* the entries of the Map of computeCategoryStats in insertion order
computeCategoryStats(assignments) ==
  Bind(SortedInts({i \in 1..Len(assignments) :
                     \A j \in 1..(i - 1) : assignments[j].category # assignments[i].category}),
       LAMBDA firsts :
    Materialize([g \in 1..Len(firsts) |->
      Bind(SelectSeq(assignments, LAMBDA a : a.category = assignments[firsts[g]].category),
           LAMBDA members :
        [name |-> assignments[firsts[g]].category, count |-> Len(members),
         tabIds |-> Materialize([m \in 1..Len(members) |-> members[m].id]),
         assignments |-> members])]))

\* mergeAssignmentsForTabs without `assignment.mergeHistory.push(...)`
mergeAssignmentsUnrecorded(assignments, tabIds, fromName, toName, reason) ==
  IF fromName = toName THEN assignments
  ELSE Materialize([i \in 1..Len(assignments) |->
         IF (\E k \in 1..Len(tabIds) : tabIds[k] = assignments[i].id) /\ assignments[i].category # toName
         THEN [assignments[i] EXCEPT !.category = toName]
         ELSE assignments[i]])

mergeAssignmentsForTabs(assignments, tabIds, fromName, toName, reason) ==
  IF fromName = toName THEN assignments
  ELSE Materialize([i \in 1..Len(assignments) |->
         IF (\E k \in 1..Len(tabIds) : tabIds[k] = assignments[i].id) /\ assignments[i].category # toName
         THEN [assignments[i] EXCEPT
                 !.mergeHistory = Append(@, [from |-> assignments[i].category, to |-> toName,
                                             reason |-> reason]),
                 !.category = toName]
         ELSE assignments[i]])

\* the entry findSmallestCategory returns as a position of stats, 0 for null
findSmallestCategory(stats) ==
  Bind(FirstBest({i \in 1..Len(stats) : stats[i].count # 0 /\ stats[i].name # "Other"},
                 LAMBDA j, i : stats[j].count < stats[i].count),
       LAMBDA candidate :
    IF candidate # 0 THEN candidate ELSE FindNamed(stats, "Other"))

HasKeywords(name) == \E c \in 1..Len(KEYWORD_MAP) : KEYWORD_MAP[c].category = name

KeywordsOf(name) == KEYWORD_MAP[CHOOSE c \in 1..Len(KEYWORD_MAP) : KEYWORD_MAP[c].category = name].keywords

\* config.keywords.get(keyword), 0 when the keyword is not a key
WeightIn(keywords, keyword) ==
  IF \E k \in 1..Len(keywords) : keywords[k][1] = keyword
  THEN keywords[CHOOSE k \in 1..Len(keywords) : keywords[k][1] = keyword][2] ELSE 0

IsNeighbor(a, b) ==
  a \in DOMAIN CATEGORY_NEIGHBORS
    /\ \E k \in 1..Len(CATEGORY_NEIGHBORS[a]) : CATEGORY_NEIGHBORS[a][k] = b

\* Number.POSITIVE_INFINITY is a score above every sum of weights
computeCategorySimilarity(a, b) ==
  IF a = b THEN 1000000
  ELSE IF ~HasKeywords(a) \/ ~HasKeywords(b) THEN 0
  ELSE SumSeq(Materialize([k \in 1..Len(KeywordsOf(a)) |->
                IF WeightIn(KeywordsOf(b), KeywordsOf(a)[k][1]) = 0 THEN 0
                ELSE IF KeywordsOf(a)[k][2] < WeightIn(KeywordsOf(b), KeywordsOf(a)[k][1])
                     THEN KeywordsOf(a)[k][2]
                     ELSE WeightIn(KeywordsOf(b), KeywordsOf(a)[k][1])]))
       + (IF IsNeighbor(a, b) THEN 50 ELSE 0) + (IF IsNeighbor(b, a) THEN 50 ELSE 0)

\* the name findNearestCategory returns, Null for null
findNearestCategory(name, stats) ==
  Bind(Materialize([i \in 1..Len(stats) |-> computeCategorySimilarity(name, stats[i].name)]),
       LAMBDA score :
  Bind(FirstBest({i \in 1..Len(stats) : stats[i].name # name /\ stats[i].count # 0},
                 LAMBDA j, i : \/ score[j] > score[i]
                               \/ score[j] = score[i] /\ stats[j].count > stats[i].count),
       LAMBDA best :
    IF best = 0 THEN Null ELSE stats[best].name))

\* the target of a merge: findNearestCategory(name, stats) || 'Other'
NearestOrOther(name, stats) ==
  Bind(findNearestCategory(name, stats), LAMBDA nearest :
    IF Truthy(nearest) THEN nearest ELSE "Other")

\* Math.max(1, Math.floor(maxGroups)): the limit without its cap of 5
SafeMaxUnclamped(maxGroups) == IF maxGroups < 1 THEN 1 ELSE maxGroups

\* Math.max(1, Math.min(5, Math.floor(maxGroups)))
SafeMax(maxGroups) == IF maxGroups < 1 THEN 1 ELSE IF maxGroups > 5 THEN 5 ELSE maxGroups

\* nonOther.slice(allowedNonOther) without the sort before it
OverflowEntriesUnsorted(stats, safeMax) ==
  Bind(SelectSeq(stats, LAMBDA entry : entry.name # "Other"), LAMBDA nonOther :
  Bind(IF Len(nonOther) > safeMax \/ FindNamed(stats, "Other") # 0 THEN 1 ELSE 0, LAMBDA reserveForOther :
    SubSeq(nonOther, (IF safeMax - reserveForOther < 0 THEN 0 ELSE safeMax - reserveForOther) + 1,
           Len(nonOther))))

\* nonOther.sort(...) and the entries of nonOther.slice(allowedNonOther)
OverflowEntries(stats, safeMax) ==
  Bind(SelectSeq(stats, LAMBDA entry : entry.name # "Other"), LAMBDA nonOther :
  Bind(IF Len(nonOther) > safeMax \/ FindNamed(stats, "Other") # 0 THEN 1 ELSE 0, LAMBDA reserveForOther :
  Bind(StableSort(nonOther, LAMBDA a, b :
         \/ a.count > b.count
         \/ a.count = b.count /\ CATEGORY_PRIORITY[a.name] > CATEGORY_PRIORITY[b.name]), LAMBDA sorted :
    SubSeq(sorted, (IF safeMax - reserveForOther < 0 THEN 0 ELSE safeMax - reserveForOther) + 1,
           Len(sorted)))))

\* mergeAssignmentsForTabs for the entries from position i on, all to one category
RECURSIVE MergeEntries(_, _, _, _, _)
MergeEntries(assignments, entries, i, toName, reason) ==
  IF i > Len(entries) THEN assignments
  ELSE MergeEntries(mergeAssignmentsForTabs(assignments, entries[i].tabIds, entries[i].name, toName, reason),
                    entries, i + 1, toName, reason)

\* the first entry of fewer than 2 tabs that is not 'Other', 0 if none
FirstSmallEntry(stats) ==
  FirstBest({i \in 1..Len(stats) : stats[i].name # "Other" /\ stats[i].count < 2},
            LAMBDA j, i : FALSE)

\* one pass of the loop `while (changed)`: the assignments after it and `changed`
LimitPass(assignments, stats, safeMax) ==
  IF stats = <<>> THEN [assignments |-> assignments, changed |-> FALSE]
  ELSE IF Len(stats) > safeMax /\ OverflowEntries(stats, safeMax) # <<>>
    THEN [assignments |-> MergeEntries(assignments, OverflowEntries(stats, safeMax), 1, "Other", "overflow"),
          changed |-> TRUE]
  ELSE IF Len(stats) >= 4 /\ FirstSmallEntry(stats) # 0
    THEN [assignments |->
            mergeAssignmentsForTabs(assignments, stats[FirstSmallEntry(stats)].tabIds,
                                    stats[FirstSmallEntry(stats)].name,
                                    NearestOrOther(stats[FirstSmallEntry(stats)].name, stats), "small"),
          changed |-> TRUE]
  ELSE IF Len(stats) > safeMax /\ findSmallestCategory(stats) # 0
    THEN [assignments |->
            mergeAssignmentsForTabs(assignments, stats[findSmallestCategory(stats)].tabIds,
                                    stats[findSmallestCategory(stats)].name,
                                    NearestOrOther(stats[findSmallestCategory(stats)].name, stats), "limit"),
          changed |-> TRUE]
  ELSE [assignments |-> assignments, changed |-> FALSE]

\* the assignments after the loop
RECURSIVE limitCategoryAssignments(_, _)
limitCategoryAssignments(assignments, maxGroups) ==
  Bind(LimitPass(assignments, computeCategoryStats(assignments), SafeMax(maxGroups)), LAMBDA pass :
    IF pass.changed THEN limitCategoryAssignments(pass.assignments, maxGroups)
    ELSE pass.assignments)

\* ids of the assignments in the order of their tabs
IdsByIndex(members) ==
  Bind(StableSort(members, LAMBDA a, b : a.index < b.index), LAMBDA sorted :
    Materialize([m \in 1..Len(sorted) |-> sorted[m].id]))

\* the groups of collectCategoryGroupRecords
collectCategoryGroupRecords(assignments) ==
  Bind(computeCategoryStats(assignments), LAMBDA stats :
    StableSort(Materialize([g \in 1..Len(stats) |->
                 [name |-> stats[g].name, tabIds |-> IdsByIndex(stats[g].assignments),
                  origin |-> "category"]]),
               LAMBDA a, b :
                 \/ Len(a.tabIds) > Len(b.tabIds)
                 \/ Len(a.tabIds) = Len(b.tabIds)
                      /\ CATEGORY_PRIORITY[a.name] > CATEGORY_PRIORITY[b.name]))

\* a faulty variant of InitialAssignment that scores the keywords first and asks the
\* catalog only for a tab that no keyword speaks for
InitialAssignmentScoredFirst(info) ==
  IF scoreCategory(info).score > 0
  THEN createCategoryAssignment(info, normalizeCategoryName(scoreCategory(info).category),
                                "keyword", Null)
  ELSE Bind(matchCategoryRule(info), LAMBDA ruleMatch :
         IF ruleMatch.matched
         THEN createCategoryAssignment(info, normalizeCategoryName(ruleMatch.category),
                                       "rule", ruleMatch.ruleName)
         ELSE createCategoryAssignment(info, "Other", "keyword", Null))

\* the assignment of the first or of the second loop of categorizeTabInfos for one tab
InitialAssignment(info) ==
  Bind(matchCategoryRule(info), LAMBDA ruleMatch :
    IF ruleMatch.matched
    THEN createCategoryAssignment(info,
           normalizeCategoryName(IF Truthy(ruleMatch.category) THEN ruleMatch.category
                                 ELSE ruleMatch.name),
           "rule", ruleMatch.ruleName)
    ELSE createCategoryAssignment(info, normalizeCategoryName(scoreCategory(info).category),
                                  "keyword", Null))

\* Map.prototype.set on a Map of assignments keyed by id
MapSet(assignments, assignment) ==
  IF \E k \in 1..Len(assignments) : assignments[k].id = assignment.id
  THEN Materialize([k \in 1..Len(assignments) |->
         IF assignments[k].id = assignment.id THEN assignment ELSE assignments[k]])
  ELSE Append(assignments, assignment)

RECURSIVE MapSetAll(_, _, _)
MapSetAll(assignments, added, i) ==
  IF i > Len(added) THEN assignments
  ELSE MapSetAll(MapSet(assignments, added[i]), added, i + 1)

\* {groups, assignments} of categorizeTabInfos: the tabs that a catalog rule matches
\* are set first, the tabs scored by keywords after them
categorizeTabInfos(tabInfos, maxGroups) ==
  Bind(Materialize([i \in 1..Len(tabInfos) |-> InitialAssignment(tabInfos[i])]), LAMBDA initial :
  Bind(limitCategoryAssignments(
         MapSetAll(MapSetAll(<<>>, SelectSeq(initial, LAMBDA a : a.method = "rule"), 1),
                   SelectSeq(initial, LAMBDA a : a.method = "keyword"), 1),
         IF maxGroups = 0 THEN 5 ELSE maxGroups), LAMBDA assignments :
    [groups |-> collectCategoryGroupRecords(assignments), assignments |-> assignments]))

(***************************************************************************)
(* groupByRules: user rules, the cap on the number of groups, the result   *)
(*                                                                         *)
(* A group record is [name, tabIds, origin, uid]; uid tells the record     *)
(* objects apart.  Colors are left out.                                    *)
(***************************************************************************)
\* the candidate of resolveGroupName for an index
CandidateName(clean, index) ==
  IF index = 0 THEN clean ELSE clean \o " (" \o ToString(index + 1) \o ")"

\* groups.has(candidate) && groups.get(candidate).length >= limit
IsFull(groups, candidate, limit) ==
  \E g \in 1..Len(groups) : groups[g].name = candidate /\ Len(groups[g].tabIds) >= limit

\* the name resolveGroupName returns and the Map counters after the call
resolveGroupName(groups, counters, baseName, limit) ==
  Bind(truncateLabel(IF Truthy(baseName) THEN baseName ELSE "Group"), LAMBDA clean :
    IF limit < 2 THEN [name |-> clean, counters |-> counters]
    ELSE
      Bind(IF clean \in DOMAIN counters THEN counters[clean] ELSE 0, LAMBDA start :
      Bind(Min({k \in start..(start + Len(groups)) : ~IsFull(groups, CandidateName(clean, k), limit)}),
           LAMBDA index :
        [name |-> CandidateName(clean, index), counters |-> (clean :> index) @@ counters])))

\* groups, counters and the resolved name after assignTabToGroupMap
assignTabToGroupMap(groups, counters, baseName, tabId, limit) ==
  Bind(resolveGroupName(groups, counters, baseName, limit), LAMBDA resolved :
    [groups |-> IF FindNamed(groups, resolved.name) = 0
                THEN Append(groups, [name |-> resolved.name, tabIds |-> <<tabId>>])
                ELSE [groups EXCEPT ![FindNamed(groups, resolved.name)].tabIds = Append(@, tabId)],
     counters |-> resolved.counters,
     name |-> resolved.name])

\* what the loop over the snapshots has built
NoTabs ==
  [userGroups |-> <<>>, counters |-> <<>>, assignments |-> <<>>, pinned |-> <<>>,
   unmatchedInfos |-> <<>>]

\* the loop `for (const tab of snapshots)` of groupByRules from tab i on
\* a faulty variant of SkipsPinned that classifies the pinned tabs like the others
SkipsPinnedNever(tab, preservePinned) == FALSE

\* if (preservePinned && tab.pinned): the tab gets the diagnostic 'pinned' and no group
SkipsPinned(tab, preservePinned) == preservePinned /\ tab.pinned

RECURSIVE ClassifyTabs(_, _, _, _, _, _)
ClassifyTabs(snapshots, i, compiledUserRules, preservePinned, maxTabsPerGroup, built) ==
  IF i > Len(snapshots) THEN built
  ELSE IF SkipsPinned(snapshots[i], preservePinned)
    THEN ClassifyTabs(snapshots, i + 1, compiledUserRules, preservePinned, maxTabsPerGroup,
                      [built EXCEPT !.pinned = Append(@, snapshots[i].id)])
  ELSE
    Bind(prepareTabForClassification(snapshots[i]), LAMBDA info :
    Bind(matchCompiledRule(compiledUserRules, info), LAMBDA match :
      IF match.matched
      THEN
        Bind(assignTabToGroupMap(built.userGroups, built.counters, match.name, info.id,
                                 maxTabsPerGroup), LAMBDA assigned :
          ClassifyTabs(snapshots, i + 1, compiledUserRules, preservePinned, maxTabsPerGroup,
            [built EXCEPT
               !.userGroups = assigned.groups,
               !.counters = assigned.counters,
               !.assignments = MapSet(@, [id |-> info.id, index |-> info.index,
                                          category |-> assigned.name,
                                          initialCategory |-> assigned.name,
                                          method |-> "user-rule",
                                          rule |-> IF Truthy(match.ruleName) THEN match.ruleName ELSE Null,
                                          mergeHistory |-> <<>>])]))
      ELSE ClassifyTabs(snapshots, i + 1, compiledUserRules, preservePinned, maxTabsPerGroup,
                        [built EXCEPT !.unmatchedInfos = Append(@, info)])))

\* assignment.info.tab.index, 0 for an id without assignment
IndexOfTab(assignments, id) ==
  IF \E k \in 1..Len(assignments) : assignments[k].id = id
  THEN assignments[CHOOSE k \in 1..Len(assignments) : assignments[k].id = id].index ELSE 0

sortTabIdsByIndex(tabIds, assignments) ==
  StableSort(tabIds, LAMBDA a, b : IndexOfTab(assignments, a) < IndexOfTab(assignments, b))

\* Array.from(new Set(tabIds))
Unique(tabIds) ==
  Bind(SortedInts({i \in 1..Len(tabIds) : \A j \in 1..(i - 1) : tabIds[j] # tabIds[i]}), LAMBDA firsts :
    Materialize([k \in 1..Len(firsts) |-> tabIds[firsts[k]]]))

\* the position findSmallestRecordIndex returns, 0 for -1
findSmallestRecordIndex(records) ==
  FirstBest({i \in 1..Len(records) : ~(records[i].name = "Other" /\ Len(records) <= 1)},
            LAMBDA j, i :
              \/ (records[j].origin = "category") /\ (records[i].origin # "category")
              \/ /\ (records[j].origin = "category") = (records[i].origin = "category")
                 /\ \/ Len(records[j].tabIds) < Len(records[i].tabIds)
                    \/ /\ Len(records[j].tabIds) = Len(records[i].tabIds)
                       /\ PriorityOrZero(records[j].name) > PriorityOrZero(records[i].name))

\* `score` of selectTargetRecord for a record
TargetScore(candidate, record) ==
  IF record.origin = "category" THEN computeCategorySimilarity(candidate.name, record.name) ELSE 0

\* the position of the record selectTargetRecord returns, 0 for undefined
selectTargetRecord(candidate, records) ==
  Bind(IF candidate.origin = "category"
       THEN FirstBest({i \in 1..Len(records) :
                         records[i].name # candidate.name /\ Len(records[i].tabIds) # 0},
              LAMBDA j, i :
                \/ TargetScore(candidate, records[j]) > TargetScore(candidate, records[i])
                \/ /\ TargetScore(candidate, records[j]) = TargetScore(candidate, records[i])
                   /\ Len(records[j].tabIds) > Len(records[i].tabIds))
       ELSE 0, LAMBDA best :
    IF best # 0 THEN best ELSE FindNamed(records, "Other"))

\* target.tabIds.push(...uniqueIds) for the record object uid; a record object that
\* working no longer holds is not seen again
PushTabIds(working, uid, tabIds) ==
  Materialize([k \in 1..Len(working) |->
    IF working[k].uid = uid THEN [working[k] EXCEPT !.tabIds = @ \o tabIds] ELSE working[k]])

\* working.splice(index, 1)
Splice(working, index) == SubSeq(working, 1, index - 1) \o SubSeq(working, index + 1, Len(working))

\* the record that capTotalGroups creates for 'Other'
NewOther(working) ==
  [name |-> "Other", tabIds |-> <<>>, origin |-> "category",
   uid |-> 1 + Max({0} \cup {working[k].uid : k \in 1..Len(working)})]

\* the loop `while (working.length > safeMax)`; other is the uid of the record object
\* `other`, 0 while it is undefined
RECURSIVE CapLoop(_, _, _, _)
CapLoop(working, other, assignments, safeMax) ==
  IF Len(working) <= safeMax \/ findSmallestRecordIndex(working) = 0
  THEN [records |-> working, assignments |-> assignments]
  ELSE
    Bind(findSmallestRecordIndex(working), LAMBDA index :
    Bind(selectTargetRecord(working[index], working), LAMBDA found :
    Bind(IF found = 0 /\ other = 0 THEN Append(working, NewOther(working)) ELSE working, LAMBDA extended :
    Bind(IF found # 0 THEN working[found].uid
         ELSE IF other = 0 THEN NewOther(working).uid ELSE other, LAMBDA target :
    Bind(IF found # 0 THEN working[found].name ELSE "Other", LAMBDA targetName :
      IF targetName = working[index].name
      THEN [records |-> extended, assignments |-> assignments]
      ELSE CapLoop(Splice(PushTabIds(extended, target, Unique(working[index].tabIds)), index),
                   IF found = 0 THEN target ELSE other,
                   mergeAssignmentsForTabs(assignments, Unique(working[index].tabIds),
                                           working[index].name, targetName, "limit"),
                   safeMax))))))

\* the records capTotalGroups returns and the assignments after its merges
capTotalGroups(records, assignments, maxGroups) ==
  Bind(SelectSeq(Materialize([k \in 1..Len(records) |->
                   [records[k] EXCEPT !.tabIds = Unique(@)]]),
                 LAMBDA record : Len(record.tabIds) > 0), LAMBDA working :
  Bind(CapLoop(working,
               IF FindNamed(working, "Other") = 0 THEN 0 ELSE working[FindNamed(working, "Other")].uid,
               assignments, SafeMax(maxGroups)), LAMBDA capped :
    [records |-> SelectSeq(capped.records, LAMBDA record : Len(record.tabIds) > 0),
     assignments |-> capped.assignments]))

\* one turn of the loop `while (working.length > safeMax)` of capTotalGroups: working,
\* other and the assignments after it, and whether the loop goes on
CapPass(working, other, assignments, safeMax) ==
  IF Len(working) <= safeMax \/ findSmallestRecordIndex(working) = 0
  THEN [working |-> working, other |-> other, assignments |-> assignments, running |-> FALSE]
  ELSE
    Bind(findSmallestRecordIndex(working), LAMBDA index :
    Bind(selectTargetRecord(working[index], working), LAMBDA found :
    Bind(IF found = 0 /\ other = 0 THEN Append(working, NewOther(working)) ELSE working, LAMBDA extended :
    Bind(IF found # 0 THEN working[found].uid
         ELSE IF other = 0 THEN NewOther(working).uid ELSE other, LAMBDA target :
    Bind(IF found # 0 THEN working[found].name ELSE "Other", LAMBDA targetName :
      IF targetName = working[index].name
      THEN [working |-> extended, other |-> IF found = 0 THEN target ELSE other,
            assignments |-> assignments, running |-> FALSE]
      ELSE [working |-> Splice(PushTabIds(extended, target, Unique(working[index].tabIds)), index),
            other |-> IF found = 0 THEN target ELSE other,
            assignments |-> mergeAssignmentsForTabs(assignments, Unique(working[index].tabIds),
                                                    working[index].name, targetName, "limit"),
            running |-> TRUE])))))

\* the diagnostic without score and keywords; rule is Null and merge is <<>> where the
\* object has no such field
buildCategoryDiagnostic(assignment) ==
  [group |-> assignment.category,
   reason |-> IF assignment.method = "rule" THEN "category-rule" ELSE "category-keywords",
   rule |-> assignment.rule,
   merge |-> assignment.mergeHistory]

buildFinalDiagnostic(assignment) ==
  IF assignment.method = "user-rule"
  THEN [group |-> assignment.category, reason |-> "rule", rule |-> assignment.rule,
        merge |-> assignment.mergeHistory]
  ELSE buildCategoryDiagnostic(assignment)

PinnedDiagnostic == [group |-> Null, reason |-> "pinned", rule |-> Null, merge |-> <<>>]

\* the records pushed for the entries of userGroups, then the category groups
GroupRecords(userGroups, categoryGroups, assignments) ==
  Bind(Materialize([g \in 1..Len(userGroups) |->
         [name |-> userGroups[g].name,
          tabIds |-> sortTabIdsByIndex(userGroups[g].tabIds, assignments),
          origin |-> "user"]]) \o categoryGroups, LAMBDA records :
    Materialize([k \in 1..Len(records) |->
      [name |-> records[k].name, tabIds |-> records[k].tabIds, origin |-> records[k].origin,
       uid |-> k]]))

\* b.tabIds.length - a.tabIds.length || CATEGORY_PRIORITY.get(b.name) -
\* CATEGORY_PRIORITY.get(a.name) is negative; with a name that is no category the
\* difference of the priorities is NaN
LargerGroupFirst(a, b) ==
  \/ Len(a.tabIds) > Len(b.tabIds)
  \/ /\ Len(a.tabIds) = Len(b.tabIds)
     /\ a.name \in DOMAIN CATEGORY_PRIORITY
     /\ b.name \in DOMAIN CATEGORY_PRIORITY
     /\ CATEGORY_PRIORITY[a.name] > CATEGORY_PRIORITY[b.name]

\* records with x put behind the last of its first k elements that x does not come before
RECURSIVE InsertRecord(_, _, _)
InsertRecord(records, x, k) ==
  IF k = 0 \/ ~LargerGroupFirst(x, records[k])
  THEN SubSeq(records, 1, k) \o <<x>> \o SubSeq(records, k + 1, Len(records))
  ELSE InsertRecord(records, x, k - 1)

\* Array.prototype.sort of the first n records with LargerGroupFirst, which is not an
\* order on all pairs of records: the records are inserted one by one into the sorted part
RECURSIVE SortRecords(_, _)
SortRecords(records, n) ==
  IF n = 0 THEN <<>>
  ELSE Bind(SortRecords(records, n - 1), LAMBDA sorted :
         InsertRecord(sorted, records[n], Len(sorted)))

normalizedRecords(cappedRecords, assignments) ==
  Bind(SelectSeq(Materialize([k \in 1..Len(cappedRecords) |->
                   [cappedRecords[k] EXCEPT !.tabIds = sortTabIdsByIndex(@, assignments)]]),
                 LAMBDA record : Len(record.tabIds) > 0), LAMBDA records :
    SortRecords(records, Len(records)))

\* the entries of finalGroups: a name keeps the place of its first record and has the
\* tab ids of its last
FinalGroups(records) ==
  Bind(SortedInts({k \in 1..Len(records) :
                     \A j \in 1..(k - 1) : records[j].name # records[k].name}), LAMBDA firsts :
    Materialize([g \in 1..Len(firsts) |->
      [name |-> records[firsts[g]].name,
       tabIds |-> records[Max({k \in 1..Len(records) : records[k].name = records[firsts[g]].name})].tabIds]]))

\* finalDiagnostics as a function of the tab id
FinalDiagnostics(pinned, assignments) ==
  [id \in {pinned[k] : k \in 1..Len(pinned)} \cup {assignments[k].id : k \in 1..Len(assignments)} |->
     IF \E k \in 1..Len(assignments) : assignments[k].id = id
     THEN buildFinalDiagnostic(assignments[CHOOSE k \in 1..Len(assignments) : assignments[k].id = id])
     ELSE PinnedDiagnostic] @@ <<>>

\* groupByRules: the limit handed to assignTabToGroupMap; 0 stands for no limit
maxTabsPerGroup(opts) == IF opts.maxTabsPerGroup >= 2 THEN opts.maxTabsPerGroup ELSE 0

\* a call of groupByRules that ends in an exception
Thrown ==
  [called |-> TRUE, threw |-> TRUE, records |-> <<>>, groups |-> <<>>, diagnostics |-> <<>>]

\* groupByRules up to its call of capTotalGroups: the ids of the pinned tabs it skips,
\* the assignments and the records
BeforeCap(tabs, options) ==
  Bind(ClassifyTabs(StableSort(tabs, LAMBDA a, b : a.index < b.index), 1,
                    compileUserRules(options.userRules), options.preservePinned,
                    maxTabsPerGroup(options), NoTabs),
       LAMBDA built :
  Bind(IF built.unmatchedInfos = <<>> THEN [groups |-> <<>>, assignments |-> <<>>]
       ELSE categorizeTabInfos(built.unmatchedInfos,
                               IF 5 - Len(built.userGroups) < 1 THEN 1 ELSE 5 - Len(built.userGroups)),
       LAMBDA categoryAssignments :
  Bind(MapSetAll(built.assignments, categoryAssignments.assignments, 1), LAMBDA assignments :
    [pinned |-> built.pinned, assignments |-> assignments,
     records |-> GroupRecords(built.userGroups, categoryAssignments.groups, assignments)])))

\* the Map groupByRules returns with its diagnostics; the diagnostics are also what the
\* call leaves in lastClassification
groupByRules(tabs, options) ==
  IF UserRulesThrow(options.userRules) THEN Thrown ELSE
  Bind(BeforeCap(tabs, options), LAMBDA before :
  Bind(capTotalGroups(before.records, before.assignments, 5), LAMBDA capped :
    [called |-> TRUE, threw |-> FALSE, records |-> before.records,
     groups |-> FinalGroups(normalizedRecords(capped.records, capped.assignments)),
     diagnostics |-> FinalDiagnostics(before.pinned, capped.assignments)]))

explainClassification(map, id) == IF id \in DOMAIN map THEN map[id] ELSE Null

\* the Map categorizeTabs returns with its diagnostics; maxGroups is 0 when options has none
categorizeTabs(tabs, maxGroups) ==
  Bind(categorizeTabInfos(Materialize([i \in 1..Len(tabs) |->
                            prepareTabForClassification(tabs[i])]), maxGroups), LAMBDA result :
  Bind(SelectSeq(result.groups, LAMBDA group : Len(group.tabIds) > 0), LAMBDA groups :
    [called |-> TRUE, threw |-> FALSE,
     groups |-> Materialize([g \in 1..Len(groups) |->
                  [name |-> groups[g].name,
                   tabIds |-> sortTabIdsByIndex(groups[g].tabIds, result.assignments)]]),
     diagnostics |-> [id \in {result.assignments[k].id : k \in 1..Len(result.assignments)} |->
                        buildCategoryDiagnostic(
                          result.assignments[CHOOSE k \in 1..Len(result.assignments) :
                                               result.assignments[k].id = id])] @@ <<>>]))

(***************************************************************************)
(* sanitizeGroupPlan                                                       *)
(*                                                                         *)
(* A proposed group is [valid, name, tabIds]; valid is FALSE for an entry  *)
(* that is null or has no array of tab ids.                                *)
(***************************************************************************)
\* Math.max(2, Number(preferences.maxTabsPerGroup) || 6)
maxPerGroup(preferences) ==
  IF preferences.maxTabsPerGroup = 0 THEN 6 ELSE Max({2, preferences.maxTabsPerGroup})

\* the ids that the inner loop of sanitizeGroupPlan takes from tabIds[i..]
RECURSIVE TakeIds(_, _, _, _, _, _)
TakeIds(tabIds, i, ids, assigned, availableTabs, preferences) ==
  IF i > Len(tabIds) \/ Len(ids) >= maxPerGroup(preferences) THEN ids
  ELSE IF \/ tabIds[i] \in assigned
          \/ tabIds[i] \in {ids[k] : k \in 1..Len(ids)}
          \/ \A t \in 1..Len(availableTabs) : availableTabs[t].id # tabIds[i]
          \/ \E t \in 1..Len(availableTabs) :
               /\ availableTabs[t].id = tabIds[i]
               /\ preferences.preservePinned
               /\ availableTabs[Max({u \in 1..Len(availableTabs) :
                                       availableTabs[u].id = tabIds[i]})].pinned
       THEN TakeIds(tabIds, i + 1, ids, assigned, availableTabs, preferences)
       ELSE TakeIds(tabIds, i + 1, Append(ids, tabIds[i]), assigned, availableTabs, preferences)

RECURSIVE SanitizeFrom(_, _, _, _, _)
SanitizeFrom(llmGroups, g, cleaned, availableTabs, preferences) ==
  IF g > Len(llmGroups) THEN cleaned
  ELSE IF ~llmGroups[g].valid
       THEN SanitizeFrom(llmGroups, g + 1, cleaned, availableTabs, preferences)
       ELSE Bind(TakeIds(llmGroups[g].tabIds, 1, <<>>, cleaned.assignedTabIds,
                         availableTabs, preferences), LAMBDA ids :
              SanitizeFrom(llmGroups, g + 1,
                           IF ids = <<>> THEN cleaned
                           ELSE [called |-> TRUE,
                                 groups |-> Append(cleaned.groups,
                                   [name |-> IF Trim(llmGroups[g].name) # ""
                                             THEN truncateLabel(Trim(llmGroups[g].name))
                                             ELSE "Group",
                                    tabIds |-> ids]),
                                 assignedTabIds |-> cleaned.assignedTabIds
                                                      \cup {ids[k] : k \in 1..Len(ids)}],
                           availableTabs, preferences))

sanitizeGroupPlan(llmGroups, availableTabs, preferences) ==
  SanitizeFrom(llmGroups, 1, [called |-> TRUE, groups |-> <<>>, assignedTabIds |-> {}],
               availableTabs, preferences)

(***************************************************************************)
(* The service worker: organize messages                                   *)
(*                                                                         *)
(* Times are milliseconds.  A message is a record [confirm, token]; token  *)
(* 0 stands for a message without token, and the prompt of a message only  *)
(* travels into the completion request.  A plan is a record                *)
(* [tabsToClose, groups, preferences]: the parts of the plan of buildPlan  *)
(* that applyPlan reads.  groupIds maps the id of each grouped tab to the  *)
(* id of its tab group; a tab outside its domain has TAB_GROUP_ID_NONE.    *)
(***************************************************************************)
RATE_LIMIT_INTERVAL_MS == 5000

PREVIEW_TTL_MS == 5 * 60 * 1000

\* the settings of DEFAULT_SYNC_SETTINGS that the worker reads; hasApiKey stands for an
\* apiKey that is not empty after trim()
DEFAULT_SYNC_SETTINGS ==
  [hasApiKey |-> FALSE, keepAtLeastOnePerDomain |-> TRUE, preservePinned |-> TRUE,
   maxTabsPerGroup |-> 6, dryRun |-> FALSE]

loadPreferences(settings) ==
  [hasApiKey |-> settings.hasApiKey,
   keepAtLeastOnePerDomain |-> settings.keepAtLeastOnePerDomain,
   preservePinned |-> settings.preservePinned,
   maxTabsPerGroup |-> Max({2, IF settings.maxTabsPerGroup = 0 THEN 6
                               ELSE settings.maxTabsPerGroup}),
   dryRun |-> settings.dryRun]

\* a faulty variant of cleanupExpiredPreviews that deletes nothing
cleanupExpiredPreviewsNever(plans, time) == plans

\* previewPlans without the entries older than the TTL
cleanupExpiredPreviews(plans, time) ==
  [token \in {t \in DOMAIN plans : ~(time - plans[t].createdAt > PREVIEW_TTL_MS)} |->
     plans[token]] @@ <<>>

\* enforceRateLimit throws
RateLimited(time, lastCompletion) == time - lastCompletion < RATE_LIMIT_INTERVAL_MS

\* buildPlan: the survivors handed to the completion API and to sanitizeGroupPlan
SurvivorsOf(windowTabs, dedupe) ==
  Filter(windowTabs, LAMBDA tab :
    \E k \in 1..Len(dedupe.survivors) : dedupe.survivors[k].id = tab.id)

\* buildPlan: the plan from the dedupe plan and the sanitized groups
PlanFrom(dedupe, groups, prefs) ==
  [tabsToClose |-> Materialize([k \in 1..Len(dedupe.tabsToClose) |-> dedupe.tabsToClose[k].id]),
   groups |-> groups,
   preferences |-> prefs]

\* a faulty variant of RemovalIds that hands on every id of the plan, be the tab in the
\* window or not, pinned or not
RemovalIdsOfPlan(plan, currentTabs) == plan.tabsToClose

\* applyPlan: the ids handed to chrome.tabs.remove
RemovalIds(plan, currentTabs) ==
  SelectSeq(plan.tabsToClose, LAMBDA id :
    \E t \in 1..Len(currentTabs) :
      /\ currentTabs[t].id = id
      /\ ~(plan.preferences.preservePinned /\ currentTabs[t].pinned))

\* the window after chrome.tabs.remove: the tabs left keep their order; when the active
\* tab was closed the last tab of the window becomes the active one
AfterRemoval(currentTabs, removalIds) ==
  Bind(Filter(currentTabs, LAMBDA tab : \A k \in 1..Len(removalIds) : removalIds[k] # tab.id),
       LAMBDA left :
    Materialize([i \in 1..Len(left) |->
      [left[i] EXCEPT !.index = i - 1,
                      !.active = IF \E j \in 1..Len(left) : left[j].active
                                 THEN @ ELSE i = Len(left)]]))

\* applyPlan: the ids taken from group.tabIds[i..] for chrome.tabs.group
RECURSIVE GroupIdsFrom(_, _, _, _, _, _)
GroupIdsFrom(tabIds, i, ids, assignedTabs, afterRemoval, prefs) ==
  IF i > Len(tabIds) THEN ids
  ELSE IF \/ tabIds[i] \in assignedTabs \cup {ids[k] : k \in 1..Len(ids)}
          \/ \A t \in 1..Len(afterRemoval) : afterRemoval[t].id # tabIds[i]
          \/ \E t \in 1..Len(afterRemoval) :
               /\ afterRemoval[t].id = tabIds[i]
               /\ prefs.preservePinned /\ afterRemoval[t].pinned
       THEN GroupIdsFrom(tabIds, i + 1, ids, assignedTabs, afterRemoval, prefs)
       ELSE GroupIdsFrom(tabIds, i + 1, Append(ids, tabIds[i]), assignedTabs, afterRemoval, prefs)

\* applyPlan: the loop over grouping.groups from group g on; every chrome.tabs.group call
\* makes a tab group with a new id
RECURSIVE PlannedAssignments(_, _, _, _, _, _)
PlannedAssignments(groups, g, planned, afterRemoval, prefs, created) ==
  IF g > Len(groups) THEN planned
  ELSE Bind(GroupIdsFrom(groups[g].tabIds, 1, <<>>,
                         UNION {{planned[p].tabIds[k] : k \in 1..Len(planned[p].tabIds)} :
                                  p \in 1..Len(planned)},
                         afterRemoval, prefs), LAMBDA ids :
         PlannedAssignments(groups, g + 1,
           IF ids = <<>> THEN planned
           ELSE Append(planned, [groupId |-> created + Len(planned) + 1,
                                 name |-> groups[g].name, tabIds |-> ids]),
           afterRemoval, prefs, created))

\* applyPlan(plan) on the window of the tabs currentTabs with the tab groups groupIds,
\* after `created` tab groups were made: the window it leaves and what it did
applyPlan(plan, currentTabs, groupIds, created) ==
  Bind(RemovalIds(plan, currentTabs), LAMBDA removalIds :
  Bind(AfterRemoval(currentTabs, removalIds), LAMBDA tabsAfterRemoval :
  Bind(PlannedAssignments(plan.groups, 1, <<>>, tabsAfterRemoval, plan.preferences, created),
       LAMBDA plannedAssignments :
  Bind(UNION {{plannedAssignments[p].tabIds[k] : k \in 1..Len(plannedAssignments[p].tabIds)} :
                p \in 1..Len(plannedAssignments)}, LAMBDA assignedTabs :
  Bind({tabsAfterRemoval[t].id : t \in 1..Len(tabsAfterRemoval)}, LAMBDA present :
    [tabs |-> tabsAfterRemoval,
     groupIds |->
       [id \in assignedTabs |->
          (CHOOSE p \in 1..Len(plannedAssignments) :
             \E k \in 1..Len(plannedAssignments[p].tabIds) :
               plannedAssignments[p].tabIds[k] = id) + created] @@ <<>>,
     created |-> created + Len(plannedAssignments),
     removalIds |-> removalIds,
     groups |-> plannedAssignments,
     ungrouped |-> (DOMAIN groupIds \cap present) \ assignedTabs])))))

\* applyNoLlmPlan: the ids taken from group.tabIds for chrome.tabs.group
CandidateIds(tabIds, postRemoval, preservePinned) ==
  SelectSeq(tabIds, LAMBDA id :
    \E t \in 1..Len(postRemoval) :
      /\ postRemoval[t].id = id
      /\ ~(preservePinned /\ postRemoval[t].pinned))

\* applyNoLlmPlan: the loop over groupingArray from group g on
RECURSIVE AppliedGroups(_, _, _, _, _, _)
AppliedGroups(groups, g, applied, postRemoval, preservePinned, created) ==
  IF g > Len(groups) THEN applied
  ELSE Bind(CandidateIds(groups[g].tabIds, postRemoval, preservePinned), LAMBDA candidateIds :
         AppliedGroups(groups, g + 1,
           IF candidateIds = <<>> THEN applied
           ELSE Append(applied, [groupId |-> created + Len(applied) + 1,
                                 name |-> groups[g].name, tabIds |-> candidateIds]),
           postRemoval, preservePinned, created))

\* applyNoLlmPlan(windowId, dedupePlan, groupingArray, {preservePinned}) on the window of
\* the tabs currentTabs; plan holds the ids of dedupePlan.tabsToClose, the groups of
\* groupingArray and preservePinned.  A tab that two calls of chrome.tabs.group name is
\* left in the group of the later call
applyNoLlmPlan(plan, currentTabs, groupIds, created) ==
  Bind(RemovalIds(plan, currentTabs), LAMBDA removalIds :
  Bind(AfterRemoval(currentTabs, removalIds), LAMBDA tabsAfterRemoval :
  Bind(AppliedGroups(plan.groups, 1, <<>>, tabsAfterRemoval, plan.preferences.preservePinned,
                     created), LAMBDA appliedGroups :
  Bind(UNION {{appliedGroups[p].tabIds[k] : k \in 1..Len(appliedGroups[p].tabIds)} :
                p \in 1..Len(appliedGroups)}, LAMBDA assigned :
  Bind({tabsAfterRemoval[t].id : t \in 1..Len(tabsAfterRemoval)}, LAMBDA present :
    [tabs |-> tabsAfterRemoval,
     groupIds |->
       [id \in assigned |->
          Max({p \in 1..Len(appliedGroups) :
                 \E k \in 1..Len(appliedGroups[p].tabIds) : appliedGroups[p].tabIds[k] = id})
            + created] @@ <<>>,
     created |-> created + Len(appliedGroups),
     removalIds |-> removalIds,
     groups |-> appliedGroups,
     ungrouped |-> {id \in (DOMAIN groupIds \cap present) \ assigned :
                      \A t \in 1..Len(tabsAfterRemoval) :
                        tabsAfterRemoval[t].id = id =>
                          ~(plan.preferences.preservePinned /\ tabsAfterRemoval[t].pinned)}])))))

(***************************************************************************)
(* State                                                                   *)
(***************************************************************************)
VARIABLES
  canonInput,          \* argument of the latest canonicalizeUrl call
  canonOutput,         \* its return value
  canonCalls,          \* number of canonicalizeUrl calls made on the value
  tabs,                \* the tab snapshots handed to the engine
  preferences,         \* {preservePinned, keepAtLeastOnePerDomain}
  dedupePlan,          \* result of the latest computeDedupePlan call
  options,             \* {userRules, maxTabsPerGroup, preservePinned} of groupByRules
  grouped,             \* result of the latest groupByRules call
  groupedTabs,         \* the tabs handed to that call
  sanitized,           \* result of the latest sanitizeGroupPlan call
  categorized,         \* result of the latest categorizeTabs call
  lastClassification,  \* the module-level Map of diagnostics
  limiting,            \* the loop of a limitCategoryAssignments call
  capping,             \* the loop of a capTotalGroups call
  stored,              \* the settings in chrome.storage.sync
  now,                 \* Date.now()
  lastCompletionTimestamp,
  previewPlans,        \* the Map token -> {plan, createdAt}
  uuids,               \* number of tokens crypto.randomUUID() has made
  handlers,            \* the runs of handleOrganizeMessage, in order of arrival
  tabGroupIds,         \* groupId of the grouped tabs of the window
  groupsCreated        \* number of tab groups chrome.tabs.group has made

canonVars == <<canonInput, canonOutput, canonCalls>>
dedupeVars == <<tabs, preferences, dedupePlan>>
groupVars ==
  <<options, grouped, groupedTabs, sanitized, categorized, lastClassification, limiting,
    capping>>
workerVars ==
  <<stored, now, lastCompletionTimestamp, previewPlans, uuids, handlers, tabGroupIds,
    groupsCreated>>
vars == <<canonVars, dedupeVars, groupVars, workerVars>>

NoPlan == [computed |-> FALSE, tabsToClose |-> <<>>, survivors |-> <<>>, duplicateSets |-> <<>>]
NoGroups == [called |-> FALSE, threw |-> FALSE, groups |-> <<>>, diagnostics |-> <<>>]

\* groupByRules has not been called
NotGrouped ==
  [called |-> FALSE, threw |-> FALSE, records |-> <<>>, groups |-> <<>>, diagnostics |-> <<>>]

\* dedupeTabs: both preferences default to true
DefaultPreferences == [preservePinned |-> TRUE, keepAtLeastOnePerDomain |-> TRUE]

IdleCanon == canonInput = "" /\ canonOutput = "" /\ canonCalls = 0

\* a time of day long after the worker was loaded with lastCompletionTimestamp = 0
StartTime == 200 * RATE_LIMIT_INTERVAL_MS

\* the worker has handled no message and the window has no tab group
IdleWorker ==
  /\ stored = DEFAULT_SYNC_SETTINGS
  /\ now = StartTime
  /\ lastCompletionTimestamp = 0
  /\ previewPlans = <<>>
  /\ uuids = 0
  /\ handlers = <<>>
  /\ tabGroupIds = <<>>
  /\ groupsCreated = 0

IdleDedupe == tabs = <<>> /\ preferences = DefaultPreferences /\ dedupePlan = NoPlan
\* groupByRules: no user rules, no limit on the tabs of a group, pinned tabs skipped
DefaultOptions == [userRules |-> <<>>, maxTabsPerGroup |-> 0, preservePinned |-> TRUE]

NoSanitized == [called |-> FALSE, groups |-> <<>>, assignedTabIds |-> {}]

\* limitCategoryAssignments(assignments, maxGroups) at the head of its loop
\* `while (changed)`: the Map it was called with, the Map before the latest pass, the
\* Map now, maxGroups in halves, and `changed`
Limiting(assignments, maxGroups) ==
  [initial |-> assignments, previous |-> assignments, assignments |-> assignments,
   maxGroups |-> maxGroups, changed |-> TRUE]

\* no call of limitCategoryAssignments is observed
NotLimiting == [Limiting(<<>>, 0) EXCEPT !.changed = FALSE]

\* capTotalGroups(records, assignments, 5) at the head of its loop
\* `while (working.length > safeMax)`: the records and assignments it was called with,
\* working, the uid of the record object `other` (0 while it is undefined), the
\* assignments now, and whether the loop goes on
Capping(records, assignments) ==
  Bind(SelectSeq(Materialize([k \in 1..Len(records) |-> [records[k] EXCEPT !.tabIds = Unique(@)]]),
                 LAMBDA record : Len(record.tabIds) > 0), LAMBDA working :
    [records |-> records, initial |-> assignments, working |-> working,
     other |-> IF FindNamed(working, "Other") = 0 THEN 0 ELSE working[FindNamed(working, "Other")].uid,
     assignments |-> assignments, running |-> working # <<>>])

\* no call of capTotalGroups is observed
NotCapping == [Capping(<<>>, <<>>) EXCEPT !.running = FALSE]

IdleGroup ==
  /\ options = DefaultOptions
  /\ grouped = NotGrouped
  /\ groupedTabs = <<>>
  /\ sanitized = NoSanitized
  /\ categorized = NoGroups
  /\ lastClassification = <<>>
  /\ limiting = NotLimiting
  /\ capping = NotCapping

(***************************************************************************)
(* canonicalizeUrl applied to a URL and then to its own result             *)
(***************************************************************************)
UrlSchemes == {"https://", "http://"}

UrlHosts ==
  {"example.com", "www.example.com", "www.www.example.com", "youtu.be", "www.youtube.com",
   "docs.google.com", "drive.google.com", "mail.google.com", "github.com",
   "acme.atlassian.net", "linear.app", "acme.youtrack.cloud", "www.google.co.uk",
   "www.amazon.com", "www.ebay.com", "www.airbnb.com", "www.booking.com",
   "www.skyscanner.net", "open.spotify.com", "music.apple.com"}

UrlPaths ==
  {"", "/", "/page/", "/abc", "/watch", "/playlist", "/document/d/ID1/edit", "/file/d/F1/view",
   "/drive/folders/F2", "/acme/widgets/pull/42/files", "/acme/widgets/blob/main/a.js",
   "/acme/widgets/tree", "/browse/abc-12", "/t/issue/ENG-12/x", "/search",
   "/dp/B00ABCDEF1/ref", "/gp/product/B00ABCDEF1", "/s", "/itm/12345", "/sch/i.html",
   "/rooms/99/photos", "/hotel/x//", "/hotel/us/y.html", "/a/b/c/d/e/f"}

UrlQueries ==
  {"", "?a=1", "?b=2&a=1", "?utm_source=x&a=1", "?v=abc&t=10", "?list=L1&v=abc",
   "?q=tla&hl=en", "?k=shoes&ref=nb", "?view=x&tab=rm", "?_nkw=z"}

\* URLs of schemes other than http(s), a string the URL constructor rejects, and URLs
\* with a repeated query key
UrlExtras ==
  {"chrome://extensions/", "about:blank", "file:///tmp/x.html", "not a url",
   "https://example.com/?a=1&a=2", "https://github.com/acme?b=1&a=2&b=3"}

UrlUniverse ==
  {s \o h \o p \o q : s \in UrlSchemes, h \in UrlHosts, p \in UrlPaths, q \in UrlQueries}
    \cup UrlExtras

IsHttpUrl(rawUrl) ==
  Bind(safeUrl(rawUrl), LAMBDA url : url.ok /\ url.protocol \in {"http:", "https:"})

InitCanon ==
  /\ canonInput \in UrlUniverse
  /\ canonOutput = ""
  /\ canonCalls = 0
  /\ IdleDedupe /\ IdleGroup /\ IdleWorker

\* canonicalizeUrl(u)
CanonicalizeRaw ==
  /\ canonCalls = 0
  /\ canonOutput' = canonicalizeUrl(canonInput)
  /\ canonCalls' = 1
  /\ UNCHANGED <<canonInput, dedupeVars, groupVars, workerVars>>

\* canonicalizeUrl(canonicalizeUrl(u))
CanonicalizeAgain ==
  /\ canonCalls = 1
  /\ canonOutput # Null
  /\ canonInput' = canonOutput
  /\ canonOutput' = canonicalizeUrl(canonOutput)
  /\ canonCalls' = 2
  /\ UNCHANGED <<dedupeVars, groupVars, workerVars>>

NextCanon == CanonicalizeRaw \/ CanonicalizeAgain

SpecCanon == InitCanon /\ [][NextCanon]_vars

\* C8: canonicalizeUrl is idempotent on http(s) URLs: canonicalizing the canonical form
\* of a parsable http or https URL returns that canonical form unchanged
C8_Idempotent ==
  (canonCalls = 2 /\ IsHttpUrl(canonInput)) => canonOutput = canonInput

(***************************************************************************)
(* A window whose tabs are deduplicated                                    *)
(***************************************************************************)
MaxTabs == 3

\* the window gets a tab at its end; a tab opened in the foreground, and the first tab
\* of the window, becomes the active tab
OpenTab(page, pinned, audible, lastAccessed, foreground) ==
  /\ Len(tabs) < MaxTabs
  /\ LET activate == foreground \/ tabs = <<>>
     IN tabs' = Append([i \in 1..Len(tabs) |-> [tabs[i] EXCEPT !.active = @ /\ ~activate]],
                       [id |-> 100 + Len(tabs), title |-> page.title, url |-> page.url,
                        pinned |-> pinned, audible |-> audible, active |-> activate,
                        index |-> Len(tabs), lastAccessed |-> lastAccessed])
  /\ dedupePlan' = NoPlan
  /\ UNCHANGED <<preferences, canonVars, groupVars, workerVars>>

SetPreferences(prefs) ==
  /\ prefs # preferences
  /\ preferences' = prefs
  /\ dedupePlan' = NoPlan
  /\ UNCHANGED <<tabs, canonVars, groupVars, workerVars>>

ComputeDedupePlan ==
  /\ tabs # <<>>
  /\ ~dedupePlan.computed
  /\ dedupePlan' = computeDedupePlan(tabs, preferences)
  /\ UNCHANGED <<tabs, preferences, canonVars, groupVars, workerVars>>

PreferenceValues == [preservePinned : BOOLEAN, keepAtLeastOnePerDomain : BOOLEAN]

InitDedupe == IdleCanon /\ IdleDedupe /\ IdleGroup /\ IdleWorker

\* pages with one canonical form and one domain, one canonical form and two domains,
\* two canonical forms and one domain, and a page of a scheme other than http(s)
DedupePages ==
  {[url |-> "https://www.example.com/page/", title |-> "Example"],
   [url |-> "https://example.com/other", title |-> "Other page"],
   [url |-> "https://youtu.be/abc", title |-> "Video"],
   [url |-> "https://www.youtube.com/watch?v=abc&t=10", title |-> "Video - YouTube"],
   [url |-> "chrome://extensions/", title |-> "Extensions"]}

NextDedupe ==
  \/ \E page \in DedupePages, pinned \in BOOLEAN : OpenTab(page, pinned, FALSE, <<>>, TRUE)
  \/ \E prefs \in PreferenceValues : SetPreferences(prefs)
  \/ ComputeDedupePlan

SpecDedupe == InitDedupe /\ [][NextDedupe]_vars

(***************************************************************************)
(* A window whose tabs differ in what scoreTab reads                       *)
(***************************************************************************)
MaxKeeperTabs == 3

KeeperPage == [url |-> "https://www.example.com/page/", title |-> "Example"]

OtherPage == [url |-> "https://example.com/other", title |-> "Other page"]

\* no lastAccessed, or one that makes up for one position in the window
LastAccessedValues == {<<>>, <<1000>>}

NextKeeper ==
  \/ \E pinned \in BOOLEAN, audible \in BOOLEAN, lastAccessed \in LastAccessedValues,
        foreground \in BOOLEAN :
       Len(tabs) < MaxKeeperTabs /\ OpenTab(KeeperPage, pinned, audible, lastAccessed, foreground)
  \/ \E foreground \in BOOLEAN :
       Len(tabs) < MaxKeeperTabs /\ OpenTab(OtherPage, FALSE, FALSE, <<>>, foreground)
  \/ \E preservePinned \in BOOLEAN :
       SetPreferences([preservePinned |-> preservePinned, keepAtLeastOnePerDomain |-> TRUE])
  \/ ComputeDedupePlan

SpecKeeper == InitDedupe /\ [][NextKeeper]_vars

(***************************************************************************)
(* Properties of computeDedupePlan                                         *)
(***************************************************************************)
ClosedIds == {dedupePlan.tabsToClose[k].id : k \in 1..Len(dedupePlan.tabsToClose)}

SurvivorIds == {dedupePlan.survivors[k].id : k \in 1..Len(dedupePlan.survivors)}

\* the tabs that some duplicate set lists in `closing`
ClosingTabs ==
  UNION {{dedupePlan.duplicateSets[k].closing[c] : c \in 1..Len(dedupePlan.duplicateSets[k].closing)} :
           k \in 1..Len(dedupePlan.duplicateSets)}

\* C5: with preservePinned, no pinned tab is in tabsToClose and every pinned tab of the
\* input is in survivors, whatever keepAtLeastOnePerDomain is
C5_PinnedPreserved ==
  (dedupePlan.computed /\ preferences.preservePinned) =>
    \A i \in 1..Len(tabs) :
      tabs[i].pinned => (tabs[i].id \notin ClosedIds /\ tabs[i].id \in SurvivorIds)

\* C5 happens: a pinned tab is the duplicate of a keeper while preservePinned is set
C5_Witness ==
  /\ dedupePlan.computed
  /\ preferences.preservePinned
  /\ \E dup \in ClosingTabs : dup.pinned /\ dup.id \in SurvivorIds

\* C6: with keepAtLeastOnePerDomain, every effective domain of an input tab is the
\* effective domain of a survivor
C6_DomainFloor ==
  (dedupePlan.computed /\ preferences.keepAtLeastOnePerDomain) =>
    {d \in {extractDomain(tabs[i].url) : i \in 1..Len(tabs)} : Truthy(d)}
      \subseteq {extractDomain(dedupePlan.survivors[k].url) : k \in 1..Len(dedupePlan.survivors)}

\* C6 happens: a duplicate that is not pinned survives because its domain had no survivor
C6_Witness ==
  /\ dedupePlan.computed
  /\ preferences.keepAtLeastOnePerDomain
  /\ \E dup \in ClosingTabs :
       /\ ~dup.pinned
       /\ dup.id \in SurvivorIds
       /\ \A k \in 1..Len(tabs) :
            (tabs[k].id \in SurvivorIds /\ tabs[k].id # dup.id)
              => extractDomain(tabs[k].url) # extractDomain(dup.url)

\* the positions of the tabs with the canonical form of tab i
SameCanonical(i) ==
  {j \in 1..Len(tabs) : canonicalizeUrl(tabs[j].url) = canonicalizeUrl(tabs[i].url)}

\* C7: of two or more tabs, none pinned, with one canonical form and one effective domain,
\* exactly one is in survivors and each other one is in tabsToClose with a reason that
\* contains 'Duplicate of' and with duplicateOf = the id of the survivor, under every
\* preference setting (stated for the sets of http(s) tabs that are a whole canonical
\* group)
C7_OneSurvivorPerDuplicateSet ==
  dedupePlan.computed =>
    \A i \in 1..Len(tabs) :
      (/\ IsHttpUrl(tabs[i].url)
       /\ Cardinality(SameCanonical(i)) >= 2
       /\ \A j \in SameCanonical(i) :
            ~tabs[j].pinned /\ extractDomain(tabs[j].url) = extractDomain(tabs[i].url))
      => \E s \in SameCanonical(i) :
           /\ tabs[s].id \in SurvivorIds
           /\ \A j \in SameCanonical(i) \ {s} :
                /\ tabs[j].id \notin SurvivorIds
                /\ \E k \in 1..Len(dedupePlan.tabsToClose) :
                     /\ dedupePlan.tabsToClose[k].id = tabs[j].id
                     /\ Includes(dedupePlan.tabsToClose[k].reason, "Duplicate of")
                     /\ dedupePlan.tabsToClose[k].duplicateOf = tabs[s].id

\* C10: no tab whose URL is of a scheme other than http(s) is in tabsToClose
C10_NonHttpNeverClosed ==
  dedupePlan.computed =>
    \A k \in 1..Len(dedupePlan.tabsToClose) : IsHttpUrl(dedupePlan.tabsToClose[k].url)

\* the score as C9 gives it, in thousandths
C9_Score(tab) ==
  (IF tab.active THEN 10000000 ELSE 0)
  + (IF tab.audible THEN 400000 ELSE 0)
  + (IF tab.pinned THEN (IF preferences.preservePinned THEN 8000000 ELSE 2000000) ELSE 0)
  + (IF tab.lastAccessed = <<>> THEN 0 ELSE tab.lastAccessed[1])
  + 1000 * (100 - tab.index)

\* C9 for the plan, keys[i] being the canonical key of tab i
C9_Holds(keys) ==
  /\ \A k \in 1..Len(dedupePlan.duplicateSets) :
       LET set == dedupePlan.duplicateSets[k]
           members == {i \in 1..Len(tabs) : keys[i] = set.canonical}
       IN /\ \E p \in members :
               /\ tabs[p] = set.keeper
               /\ \A i \in members :
                    \/ C9_Score(tabs[p]) > C9_Score(tabs[i])
                    \/ C9_Score(tabs[p]) = C9_Score(tabs[i]) /\ p <= i
          /\ {set.closing[c].id : c \in 1..Len(set.closing)}
               = {tabs[i].id : i \in members} \ {set.keeper.id}
          /\ Len(set.closing) = Cardinality(members) - 1
  /\ \A i \in 1..Len(tabs) :
       Cardinality({k \in 1..Len(dedupePlan.duplicateSets) :
                      dedupePlan.duplicateSets[k].canonical = keys[i]})
         = IF Cardinality({j \in 1..Len(tabs) : keys[j] = keys[i]}) >= 2 THEN 1 ELSE 0

\* C9: the keeper of every duplicate set has the highest score of its canonical group
\* and, among the tabs of that score, comes first in the input list; every canonical
\* key with two or more tabs has exactly one duplicate set, whose keeper and closing
\* list are the tabs of the group, and a key with one tab has none
C9_KeeperIsBest ==
  dedupePlan.computed =>
    C9_Holds(Materialize([i \in 1..Len(tabs) |-> CanonicalKey(tabs[i])]))

\* C9 happens: a keeper is followed in the input by an audible duplicate of the same score
C9_Witness ==
  /\ dedupePlan.computed
  /\ \E k \in 1..Len(dedupePlan.duplicateSets) :
       \E c \in 1..Len(dedupePlan.duplicateSets[k].closing) :
         /\ C9_Score(dedupePlan.duplicateSets[k].closing[c])
              = C9_Score(dedupePlan.duplicateSets[k].keeper)
         /\ dedupePlan.duplicateSets[k].closing[c].audible

(***************************************************************************)
(* Windows whose tabs are grouped                                          *)
(***************************************************************************)
MaxGroupTabs == 3

MaxManyTabs == 6

\* the window that shows the pages of `kinds` in that order, the last one in front
WindowOf(kinds) ==
  Materialize([i \in 1..Len(kinds) |->
    [id |-> 100 + i - 1, title |-> kinds[i].page.title, url |-> kinds[i].page.url,
     pinned |-> kinds[i].pinned, audible |-> FALSE, active |-> i = Len(kinds),
     index |-> i - 1, lastAccessed |-> <<>>]])

ListsOf(S, n) == UNION {[1..k -> S] : k \in 0..n}

\* two pages of one catalog host, a page of another catalog host, a page that only the
\* keywords classify and a page that nothing classifies
GroupPages ==
  {[url |-> "https://github.com/acme/widgets/pull/42", title |-> "Fix login"],
   [url |-> "https://github.com/acme/widgets/issues/7", title |-> "Issue 7"],
   [url |-> "https://docs.google.com/document/d/abc123/edit", title |-> "Roadmap"],
   [url |-> "https://example.com/cart", title |-> "Your cart"],
   [url |-> "https://example.com/", title |-> "Example"]}

PinnedPage == [url |-> "https://github.com/acme/widgets/pull/42", title |-> "Fix login"]

GroupTabKinds ==
  {[page |-> p, pinned |-> FALSE] : p \in GroupPages} \cup {[page |-> PinnedPage, pinned |-> TRUE]}

\* a user rule as parseUserRulesJSON hands it on; priority is <<>> when the rule has none
UserRule(name, host, title, priority) ==
  [name |-> name, host |-> host, path |-> NoRegex, title |-> title, priority |-> priority]

\* user rules that match pages the catalog matches too, with a priority below and above
\* the catalog's, a rule declared after a rule of a lower priority for the same pages,
\* and a rule that carries the name of a built-in category
UserRuleLists ==
  {<<>>,
   <<UserRule("Reading", RegExp("literal", <<"google">>), NoRegex, <<2000>>),
     UserRule("Work", RegExp("literal", <<"github">>), NoRegex, <<100>>)>>,
   <<UserRule("Dev/Code", NoRegex, RegExp("literal", <<"issue">>), <<100>>)>>}

GroupOptions ==
  [userRules : UserRuleLists, maxTabsPerGroup : {0, 2}, preservePinned : BOOLEAN]

\* pages of six hosts that a user rule each puts in a group of its own, and the page that
\* only the keywords classify
ManyHosts == <<"alpha", "bravo", "delta", "gamma", "omega", "sigma">>

ManyPage(host) == [url |-> "https://" \o host \o ".example.org/", title |-> ToUpperCase(host)]

ManyPages ==
  Materialize([i \in 1..Len(ManyHosts) + 1 |->
    IF i <= Len(ManyHosts) THEN ManyPage(ManyHosts[i])
    ELSE [url |-> "https://example.com/cart", title |-> "Your cart"]])

\* one rule per host, named as `names` says
ManyRules(names) ==
  Materialize([i \in 1..Len(ManyHosts) |->
    UserRule(names[i], RegExp("literal", <<ManyHosts[i]>>), NoRegex, <<>>)])

ManyRuleLists ==
  {ManyRules(<<"Alpha", "Bravo", "Delta", "Gamma", "Omega", "Sigma">>),
   ManyRules(<<"Alpha", "Bravo", "Other", "Gamma", "Omega", "Sigma">>),
   ManyRules(<<"Alpha", "Bravo", "Alpha", "Bravo", "Omega", "Omega">>)}

\* the pages of ManyPages at the positions of `chosen`, in the order of ManyPages
PagesAt(chosen) ==
  Bind(SortedInts(chosen), LAMBDA order :
    Materialize([k \in 1..Len(order) |-> [page |-> ManyPages[order[k]], pinned |-> FALSE]]))

ManyWindows ==
  {WindowOf(PagesAt(chosen)) :
     chosen \in {c \in SUBSET (1..Len(ManyPages)) : Cardinality(c) <= MaxManyTabs}}

\* preservePinned is switched off for the windows that hold a pinned tab only: no other
\* window lets groupByRules read it; these windows get a limit for the tabs of a group
\* when they have no user rules and preservePinned is on (the windows of ManyWindows get
\* it together with user rules)
GroupInputs ==
  {input \in {WindowOf(kinds) : kinds \in ListsOf(GroupTabKinds, MaxGroupTabs)} \X GroupOptions :
     /\ input[2].preservePinned \/ \E i \in 1..Len(input[1]) : input[1][i].pinned
     /\ input[2].maxTabsPerGroup = 0 \/ (input[2].userRules = <<>> /\ input[2].preservePinned)}
  \cup (ManyWindows \X [userRules : ManyRuleLists, maxTabsPerGroup : {0, 2},
                        preservePinned : {TRUE}])

InitGroup ==
  /\ IdleCanon /\ IdleWorker
  /\ preferences = DefaultPreferences
  /\ dedupePlan = NoPlan
  /\ \E input \in GroupInputs : tabs = input[1] /\ options = input[2]
  /\ grouped = NotGrouped
  /\ groupedTabs = <<>>
  /\ sanitized = NoSanitized
  /\ categorized = NoGroups
  /\ lastClassification = <<>>
  /\ limiting = NotLimiting
  /\ capping = NotCapping

\* groupByRules(tabs, options): the call returns the groups with their diagnostics and
\* replaces the content of lastClassification by the diagnostics; a call that throws
\* leaves lastClassification as it is
CallGroupByRules ==
  /\ grouped' = groupByRules(tabs, options)
  /\ groupedTabs' = tabs
  /\ lastClassification' = IF grouped'.threw THEN lastClassification ELSE grouped'.diagnostics
  /\ UNCHANGED <<tabs, preferences, dedupePlan, options, sanitized, categorized, limiting, capping,
                 canonVars, workerVars>>

\* the first call of groupByRules
GroupByRules ==
  /\ ~grouped.called
  /\ CallGroupByRules

NextGroup == GroupByRules

SpecGroup == InitGroup /\ [][NextGroup]_vars

(***************************************************************************)
(* Properties of groupByRules                                              *)
(***************************************************************************)
\* the tabs that groupByRules classifies: all but the pinned ones it skips
Classified == {i \in 1..Len(tabs) : ~(options.preservePinned /\ tabs[i].pinned)}

\* the places <<group, position>> at which the groups named in `names` hold tab id
PlacesOf(id, names) ==
  {place \in UNION {{<<k, j>> : j \in 1..Len(grouped.groups[k].tabIds)} :
                      k \in 1..Len(grouped.groups)} :
     /\ grouped.groups[place[1]].name \in names
     /\ grouped.groups[place[1]].tabIds[place[2]] = id}

GroupNames == {grouped.groups[k].name : k \in 1..Len(grouped.groups)}

\* the position in options.userRules of the first rule that matches tab i; 0 when none does
FirstUserRule(i) ==
  Bind(prepareTabForClassification(tabs[i]), LAMBDA info :
    Bind({k \in 1..Len(options.userRules) : RuleMatches(options.userRules[k], info)},
         LAMBDA hits : IF hits = {} THEN 0 ELSE Min(hits)))

\* the names of the bucket `base`: the base name and its numbered siblings
Siblings(base) ==
  {base} \cup {base \o " (" \o ToString(n) \o ")" : n \in 2..Len(tabs) + 1}

\* C1: the map groupByRules returns has at most 5 groups that are not empty, whatever the
\* tabs, the user rules and their names, and maxTabsPerGroup
C1_AtMostFiveGroups ==
  grouped.called =>
    Cardinality({k \in 1..Len(grouped.groups) : grouped.groups[k].tabIds # <<>>}) <= 5

\* C2: with maxTabsPerGroup >= 2 no group of the result holds more than maxTabsPerGroup
\* tab ids, be it a user-rule group, a category group or 'Other', and the tabs of a
\* user-rule bucket are each held exactly once by the bucket's base name and its
\* siblings ' (2)', ' (3)', ...
C2_GroupSizeLimit ==
  (grouped.called /\ options.maxTabsPerGroup >= 2) =>
    /\ \A k \in 1..Len(grouped.groups) :
         Len(grouped.groups[k].tabIds) <= options.maxTabsPerGroup
    /\ \A i \in Classified :
         FirstUserRule(i) # 0 =>
           Cardinality(PlacesOf(tabs[i].id,
                                Siblings(options.userRules[FirstUserRule(i)].name))) = 1

\* C3: every tab that is not skipped as pinned is held by exactly one group of the
\* result, exactly once
C3_EachTabInOneGroup ==
  grouped.called =>
    \A i \in Classified : Cardinality(PlacesOf(tabs[i].id, GroupNames)) = 1

UnparsablePages ==
  {[url |-> "not a url", title |-> "Broken"], [url |-> "", title |-> "New Tab"]}

NextUnparsable ==
  \/ \E page \in UnparsablePages \cup {KeeperPage}, pinned \in BOOLEAN :
       OpenTab(page, pinned, FALSE, <<>>, TRUE)
  \/ \E prefs \in PreferenceValues : SetPreferences(prefs)
  \/ ComputeDedupePlan

SpecUnparsable == InitDedupe /\ [][NextUnparsable]_vars

\* the ids of the tabs that some duplicate set has as keeper or lists in `closing`
DuplicateSetIds ==
  {dup.id : dup \in ClosingTabs}
  \cup {dedupePlan.duplicateSets[k].keeper.id : k \in 1..Len(dedupePlan.duplicateSets)}

\* C11: a tab whose URL cannot be parsed is in survivors, not in tabsToClose and in no
\* duplicate set, and a window of one tab has an empty tabsToClose
C11_UnparsableAlone ==
  dedupePlan.computed =>
    /\ \A i \in 1..Len(tabs) :
         ~safeUrl(tabs[i].url).ok =>
           /\ tabs[i].id \in SurvivorIds
           /\ tabs[i].id \notin ClosedIds
           /\ tabs[i].id \notin DuplicateSetIds
    /\ Len(tabs) = 1 => dedupePlan.tabsToClose = <<>>

\* C11 happens: two tabs with the same unparsable URL both survive
C11_Witness ==
  /\ dedupePlan.computed
  /\ \E i, j \in 1..Len(tabs) :
       /\ i # j /\ tabs[i].url = tabs[j].url /\ ~safeUrl(tabs[i].url).ok
       /\ {tabs[i].id, tabs[j].id} \subseteq SurvivorIds

(***************************************************************************)
(* Limits on the tabs of a group that are below 2                          *)
(***************************************************************************)
MaxLimitTabs == 3

LimitPage == [url |-> "https://github.com/acme/widgets/pull/42", title |-> "Fix login"]

\* limits below 2, and the least limit that is in range
LimitValues == {-1, 0, 1, 2}

\* groups as a completion may propose them for the tabs 100, 101, ...: all tabs in one
\* group, a tab proposed twice, an entry without tab ids, an unknown tab id
ProposedGroups ==
  {<<[valid |-> TRUE, name |-> " Code ", tabIds |-> <<100, 101, 102, 103>>]>>,
   <<[valid |-> TRUE, name |-> "", tabIds |-> <<101, 100, 101>>],
     [valid |-> FALSE, name |-> "Lost", tabIds |-> <<>>],
     [valid |-> TRUE, name |-> "Rest", tabIds |-> <<100, 102, 999>>]>>}

InitLimit ==
  /\ IdleCanon /\ IdleWorker
  /\ preferences = DefaultPreferences
  /\ dedupePlan = NoPlan
  /\ \E pins \in ListsOf(BOOLEAN, MaxLimitTabs) :
       tabs = WindowOf([i \in 1..Len(pins) |-> [page |-> LimitPage, pinned |-> pins[i]]])
  /\ options \in [userRules : {<<UserRule("Work", RegExp("literal", <<"github">>), NoRegex, <<>>)>>},
                  maxTabsPerGroup : LimitValues, preservePinned : BOOLEAN]
  /\ grouped = NotGrouped
  /\ groupedTabs = <<>>
  /\ sanitized = NoSanitized
  /\ categorized = NoGroups
  /\ lastClassification = <<>>
  /\ limiting = NotLimiting
  /\ capping = NotCapping

\* sanitizeGroupPlan(llmGroups, tabs, options)
SanitizeGroupPlan(llmGroups) ==
  /\ sanitized' = sanitizeGroupPlan(llmGroups, tabs, options)
  /\ UNCHANGED <<tabs, preferences, dedupePlan, options, grouped, groupedTabs, categorized,
                 lastClassification, limiting, capping, canonVars, workerVars>>

NextLimit ==
  \/ GroupByRules
  \/ \E llmGroups \in ProposedGroups : SanitizeGroupPlan(llmGroups)

SpecLimit == InitLimit /\ [][NextLimit]_vars

\* C12: with maxTabsPerGroup below 2, groupByRules and sanitizeGroupPlan apply a limit of
\* at least 2, and no group of their results holds more tabs than the limit applied
C12_LimitClamped ==
  options.maxTabsPerGroup < 2 =>
    /\ grouped.called =>
         /\ maxTabsPerGroup(options) >= 2
         /\ \A k \in 1..Len(grouped.groups) :
              Len(grouped.groups[k].tabIds) <= maxTabsPerGroup(options)
    /\ sanitized.called =>
         /\ maxPerGroup(options) >= 2
         /\ \A k \in 1..Len(sanitized.groups) :
              Len(sanitized.groups[k].tabIds) <= maxPerGroup(options)

\* the part of C12 that is about sanitizeGroupPlan
SanitizedWithinLimit ==
  (sanitized.called /\ options.maxTabsPerGroup < 2) =>
    /\ maxPerGroup(options) >= 2
    /\ \A k \in 1..Len(sanitized.groups) :
         Len(sanitized.groups[k].tabIds) <= maxPerGroup(options)

(***************************************************************************)
(* User rules with entries that are empty or malformed                     *)
(***************************************************************************)
MaxFewTabs == 2

MaxRuleEntries == 2

FewPages ==
  {[url |-> "https://github.com/acme/widgets/pull/42", title |-> "Fix login"],
   [url |-> "https://example.com/cart", title |-> "Your cart"]}

FewWindows ==
  {WindowOf(kinds) :
     kinds \in ListsOf({[page |-> p, pinned |-> FALSE] : p \in FewPages}, MaxFewTabs)}

\* a rule that matches, the entry null, an entry without any pattern and an entry whose
\* host pattern "(" is no regular expression
RuleEntries ==
  {UserRule("Work", RegExp("literal", <<"github">>), NoRegex, <<>>),
   NullRule,
   UserRule("Empty", NoRegex, NoRegex, <<>>),
   UserRule("Broken", RegExp("invalid", <<"(">>), NoRegex, <<>>)}

InitMalformed ==
  /\ IdleCanon /\ IdleWorker
  /\ preferences = DefaultPreferences
  /\ dedupePlan = NoPlan
  /\ tabs \in FewWindows
  /\ options \in [userRules : ListsOf(RuleEntries, MaxRuleEntries), maxTabsPerGroup : {0},
                  preservePinned : {TRUE}]
  /\ grouped = NotGrouped
  /\ groupedTabs = <<>>
  /\ sanitized = NoSanitized
  /\ categorized = NoGroups
  /\ lastClassification = <<>>
  /\ limiting = NotLimiting
  /\ capping = NotCapping

SpecMalformed == InitMalformed /\ [][NextGroup]_vars

\* the entries of a list of user rules that are not null, have a pattern and have no
\* pattern that is not a regular expression
WellFormedRules(userRules) ==
  SelectSeq(userRules, LAMBDA rule : ~UserRulesThrow(<<rule>>) /\ HasPattern(rule))

\* C14: groupByRules does not throw because of an entry of the user rules, and returns
\* what it returns for the list without the entries that are null, have no pattern or
\* have a pattern that is not a regular expression
C14_MalformedRulesSkipped ==
  grouped.called =>
    /\ ~grouped.threw
    /\ grouped = groupByRules(groupedTabs, [options EXCEPT !.userRules = WellFormedRules(@)])

\* the part of C14 that is about entries without any pattern
PatternlessRulesSkipped ==
  (grouped.called /\ ~grouped.threw) =>
    grouped = groupByRules(groupedTabs, [options EXCEPT !.userRules = WellFormedRules(@)])

(***************************************************************************)
(* A window that is classified again and again                             *)
(***************************************************************************)
\* the tab in front is closed; the tab before it comes to the front
RemoveTab ==
  /\ tabs # <<>>
  /\ tabs' = [i \in 1..(Len(tabs) - 1) |->
                [tabs[i] EXCEPT !.active = (i = Len(tabs) - 1)]]
  /\ dedupePlan' = NoPlan
  /\ UNCHANGED <<preferences, canonVars, groupVars, workerVars>>

\* the user rules of the options change
SetUserRules(userRules) ==
  /\ userRules # options.userRules
  /\ options' = [options EXCEPT !.userRules = userRules]
  /\ UNCHANGED <<dedupeVars, canonVars, grouped, groupedTabs, sanitized, categorized,
                 lastClassification, limiting, capping, workerVars>>

\* categorizeTabs(tabs)
CategorizeTabs ==
  /\ categorized' = categorizeTabs(tabs, 0)
  /\ UNCHANGED <<dedupeVars, canonVars, options, grouped, groupedTabs, sanitized,
                 lastClassification, limiting, capping, workerVars>>

\* canonicalizeUrl(tabs[i].url)
CanonicalizeTab(i) ==
  /\ canonInput' = tabs[i].url
  /\ canonOutput' = canonicalizeUrl(tabs[i].url)
  /\ canonCalls' = 1
  /\ UNCHANGED <<dedupeVars, groupVars, workerVars>>

NextExplain ==
  \/ \E page \in FewPages :
       /\ Len(tabs) < MaxFewTabs
       /\ \A i \in 1..Len(tabs) : tabs[i].url # page.url
       /\ OpenTab(page, FALSE, FALSE, <<>>, TRUE)
  \/ RemoveTab
  \/ \E userRules \in {<<>>, <<NullRule>>} : SetUserRules(userRules)
  \/ CallGroupByRules
  \/ CategorizeTabs
  \/ ComputeDedupePlan
  \/ \E i \in 1..Len(tabs) : CanonicalizeTab(i)

SpecExplain == InitDedupe /\ [][NextExplain]_vars

ExplainIds == 100..(100 + MaxFewTabs)

\* explainClassification(id) is null
ExplainsNothing(id) == id \notin DOMAIN lastClassification

\* explainClassification(id) is the entry for id of the diagnostics of the latest call,
\* null when that call made no entry for id
ExplainsLatest(id) ==
  IF id \in DOMAIN grouped.diagnostics
  THEN /\ id \in DOMAIN lastClassification
       /\ explainClassification(lastClassification, id)
            = explainClassification(grouped.diagnostics, id)
  ELSE ExplainsNothing(id)

\* C13: after any sequence of groupByRules calls, explainClassification(id) is the entry
\* for id of the diagnostics of the latest call, and null for an id that was no input
\* tab of that call
C13_ExplainsLatestCall ==
  grouped.called =>
    \A id \in ExplainIds :
      IF id \in {groupedTabs[i].id : i \in 1..Len(groupedTabs)}
      THEN ExplainsLatest(id) ELSE ExplainsNothing(id)

\* the part of C13 that is about the calls of groupByRules that return
ReturnedCallExplained ==
  (grouped.called /\ ~grouped.threw) =>
    \A id \in ExplainIds :
      IF id \in {groupedTabs[i].id : i \in 1..Len(groupedTabs)}
      THEN ExplainsLatest(id) ELSE ExplainsNothing(id)

\* the part of C13 that is about categorizeTabs, computeDedupePlan and canonicalizeUrl
OtherCallsKeepDiagnostics ==
  [][(categorized' # categorized \/ dedupePlan' # dedupePlan \/ canonVars' # canonVars)
       => lastClassification' = lastClassification]_vars


(***************************************************************************)
(* groupByRules: pinned tabs                                               *)
(***************************************************************************)

\* the tab ids that the groups of `records` hold
IdsHeld(records) ==
  UNION {{records[k].tabIds[j] : j \in 1..Len(records[k].tabIds)} : k \in 1..Len(records)}

\* C15: when preservePinned is not false, no pinned tab is in a group of groupByRules,
\* neither in the records before the groups are merged down to five nor in the map
\* returned, and the diagnostic of each pinned tab is {group: null, reason: 'pinned'}
C15_PinnedInNoGroup ==
  (grouped.called /\ ~grouped.threw /\ options.preservePinned) =>
    \A i \in 1..Len(groupedTabs) :
      groupedTabs[i].pinned =>
        /\ groupedTabs[i].id \notin IdsHeld(grouped.records)
        /\ groupedTabs[i].id \notin IdsHeld(grouped.groups)
        /\ groupedTabs[i].id \in DOMAIN grouped.diagnostics
        /\ grouped.diagnostics[groupedTabs[i].id] = PinnedDiagnostic
        /\ groupedTabs[i].id \in DOMAIN lastClassification
        /\ explainClassification(lastClassification, groupedTabs[i].id) = PinnedDiagnostic

\* C15 happens: a pinned tab is skipped while a tab with the same URL that is not pinned
\* is held by a user-rule group
C15_Witness ==
  /\ grouped.called /\ ~grouped.threw /\ options.preservePinned
  /\ \E i, j \in 1..Len(groupedTabs) :
       /\ groupedTabs[i].pinned /\ ~groupedTabs[j].pinned
       /\ groupedTabs[i].url = groupedTabs[j].url
       /\ groupedTabs[j].id \in IdsHeld(grouped.groups)
       /\ lastClassification[groupedTabs[j].id].reason = "rule"


(***************************************************************************)
(* The service worker: handleOrganizeMessage                               *)
(*                                                                         *)
(* A run of handleOrganizeMessage is a record of `handlers`:               *)
(*   message      the organize message                                     *)
(*   dryRun       preferences.dryRun as loadPreferences returned it        *)
(*   pc           "completing": buildPlan waits for the completion API,    *)
(*                "applying": applyPlan was called and waits for the       *)
(*                window's tabs, "done": the response was sent             *)
(*   preview      the run is in the branch of `preferences.dryRun &&       *)
(*                !isConfirm`                                              *)
(*   survivors    the tabs buildPlan sent to the completion API            *)
(*   plan         the plan built or taken from previewPlans                *)
(*   response     what sendResponse got: kind "preview", "applied" or      *)
(*                "error", with the token of a preview                     *)
(*   touched      applyPlan closed, grouped or ungrouped a tab             *)
(*   requestedAt  the time at which fetchGroupingFromLLM sent the request  *)
(*                of the run to the completion API, 0 when it sent none    *)
(*   type         message.type                                             *)
(*   removalIds   the ids the run handed to chrome.tabs.remove             *)
(*   groupedIds   the tabIds of the calls of chrome.tabs.group of the run  *)
(***************************************************************************)
MaxMessages == 2

Messages == [confirm : BOOLEAN, token : 0..(MaxMessages - 1)]

NoResponse == [kind |-> "none", token |-> 0, error |-> ""]

ErrorResponse(error) == [kind |-> "error", token |-> 0, error |-> error]

EmptyPlan(prefs) == [tabsToClose |-> <<>>, groups |-> <<>>, preferences |-> prefs]

Handler(message, prefs, pc, preview, survivors, plan, response) ==
  [message |-> message, dryRun |-> prefs.dryRun, pc |-> pc, preview |-> preview,
   survivors |-> survivors, plan |-> plan, response |-> response, touched |-> FALSE,
   requestedAt |-> 0, removalIds |-> <<>>, groupedIds |-> <<>>, type |-> "organize-tabs"]

\* what a step of a run leaves: the run, previewPlans and the number of tokens made
Step(handler, previews, made) == [handler |-> handler, previewPlans |-> previews, uuids |-> made]

\* the run ends with the error thrown
Failed(handler, previews) ==
  Step([handler EXCEPT !.pc = "done", !.survivors = <<>>, !.plan = EmptyPlan(@.preferences)],
       previews, uuids)

\* the plan of the run is built: the preview branch stores it under a new token and
\* responds with the preview, the other branch calls applyPlan
Ready(handler, previews) ==
  IF handler.preview
  THEN Step([handler EXCEPT !.pc = "done", !.survivors = <<>>,
                            !.plan = EmptyPlan(@.preferences),
                            !.response = [kind |-> "preview", token |-> uuids + 1, error |-> ""]],
            ((uuids + 1) :> [plan |-> handler.plan, createdAt |-> now]) @@ previews,
            uuids + 1)
  ELSE Step([handler EXCEPT !.pc = "applying"], previews, uuids)

\* buildPlan up to the request to the completion API
BuildPlan(message, prefs, preview, previews) ==
  IF tabs = <<>>
  THEN Failed(Handler(message, prefs, "done", preview, <<>>, EmptyPlan(prefs),
                      ErrorResponse("No tabs were found in the current window.")), previews)
  ELSE
    Bind(computeDedupePlan(tabs, prefs), LAMBDA dedupe :
    Bind(SurvivorsOf(tabs, dedupe), LAMBDA survivors :
      IF Len(survivors) < 2
      THEN Ready(Handler(message, prefs, "built", preview, survivors,
                         PlanFrom(dedupe, <<>>, prefs), NoResponse), previews)
      ELSE IF RateLimited(now, lastCompletionTimestamp)
      THEN Failed(Handler(message, prefs, "done", preview, survivors, EmptyPlan(prefs),
                          ErrorResponse("Please wait before organizing again.")), previews)
      ELSE Step([Handler(message, prefs, "completing", preview, survivors,
                         PlanFrom(dedupe, <<>>, prefs), NoResponse) EXCEPT !.requestedAt = now],
                previews, uuids)))

\* a faulty variant of Started that leaves the plan of a confirmed token in previewPlans
StartedKeepsToken(message, prefs, previews) ==
  IF ~prefs.hasApiKey
  THEN Failed(Handler(message, prefs, "done", FALSE, <<>>, EmptyPlan(prefs),
                      ErrorResponse("Add your OpenAI API key")), previews)
  ELSE IF prefs.dryRun /\ ~message.confirm
  THEN BuildPlan(message, prefs, TRUE, previews)
  ELSE IF message.confirm /\ message.token # 0
  THEN IF message.token \notin DOMAIN previews
       THEN Failed(Handler(message, prefs, "done", FALSE, <<>>, EmptyPlan(prefs),
                           ErrorResponse("Preview expired. Please analyze the tabs again.")),
                   previews)
       ELSE Step(Handler(message, prefs, "applying", FALSE, <<>>, previews[message.token].plan,
                         NoResponse), previews, uuids)
  ELSE BuildPlan(message, prefs, FALSE, previews)

\* handleOrganizeMessage(message) up to its first wait for the completion API or for
\* the tabs of the window
Started(message, prefs, previews) ==
  IF ~prefs.hasApiKey
  THEN Failed(Handler(message, prefs, "done", FALSE, <<>>, EmptyPlan(prefs),
                      ErrorResponse("Add your OpenAI API key")), previews)
  ELSE IF prefs.dryRun /\ ~message.confirm
  THEN BuildPlan(message, prefs, TRUE, previews)
  ELSE IF message.confirm /\ message.token # 0
  THEN IF message.token \notin DOMAIN previews
       THEN Failed(Handler(message, prefs, "done", FALSE, <<>>, EmptyPlan(prefs),
                           ErrorResponse("Preview expired. Please analyze the tabs again.")),
                   previews)
       ELSE Step(Handler(message, prefs, "applying", FALSE, <<>>, previews[message.token].plan,
                         NoResponse),
                 [t \in DOMAIN previews \ {message.token} |-> previews[t]] @@ <<>>, uuids)
  ELSE BuildPlan(message, prefs, FALSE, previews)

\* handleOrganizeMessage(message) runs up to its first wait
Handle(message) ==
  /\ \E step \in {Started(message, loadPreferences(stored),
                          cleanupExpiredPreviews(previewPlans, now))} :
       /\ handlers' = Append(handlers, step.handler)
       /\ previewPlans' = step.previewPlans
       /\ uuids' = step.uuids
  /\ UNCHANGED <<canonVars, dedupeVars, groupVars, stored, now, lastCompletionTimestamp,
                 tabGroupIds, groupsCreated>>

\* the popup sends an organize message
Receive(message) ==
  /\ Len(handlers) < MaxMessages
  /\ Handle(message)

\* what the completion API may answer to the request for the tabs 100, 101, ...: no
\* answer (the request fails), text that is no JSON, a group of all the tabs
Completions ==
  {[kind |-> "failed", groups |-> <<>>],
   [kind |-> "invalid", groups |-> <<>>],
   [kind |-> "ok", groups |-> <<[valid |-> TRUE, name |-> "Work", tabIds |-> <<100, 101, 102>>]>>]}

\* the request of run h to the completion API ends and buildPlan goes on
Complete(h, completion) ==
  /\ handlers[h].pc = "completing"
  /\ lastCompletionTimestamp' =
       IF completion.kind = "failed" THEN lastCompletionTimestamp ELSE now
  /\ \E step \in {IF completion.kind = "failed"
                  THEN Failed([handlers[h] EXCEPT !.response =
                                 ErrorResponse("OpenAI request failed")], previewPlans)
                  ELSE IF completion.kind = "invalid"
                  THEN Failed([handlers[h] EXCEPT !.response =
                                 ErrorResponse("OpenAI returned an invalid grouping payload.")],
                              previewPlans)
                  ELSE Ready([handlers[h] EXCEPT !.plan.groups =
                                sanitizeGroupPlan(completion.groups, handlers[h].survivors,
                                                  handlers[h].plan.preferences).groups],
                             previewPlans)} :
       /\ handlers' = [handlers EXCEPT ![h] = step.handler]
       /\ previewPlans' = step.previewPlans
       /\ uuids' = step.uuids
  /\ UNCHANGED <<canonVars, dedupeVars, groupVars, stored, now, tabGroupIds, groupsCreated>>

\* applyPlan of run h works on the window, and the run responds
Apply(h) ==
  /\ handlers[h].pc = "applying"
  /\ \E applied \in {applyPlan(handlers[h].plan, tabs, tabGroupIds, groupsCreated)} :
       /\ tabs' = applied.tabs
       /\ tabGroupIds' = applied.groupIds
       /\ groupsCreated' = applied.created
       /\ handlers' = [handlers EXCEPT ![h] =
            [@ EXCEPT !.pc = "done", !.survivors = <<>>,
                      !.response = [kind |-> "applied", token |-> 0, error |-> ""],
                      !.touched = \/ applied.removalIds # <<>>
                                  \/ applied.groups # <<>>
                                  \/ applied.ungrouped # {},
                      !.removalIds = applied.removalIds,
                      !.groupedIds = Materialize([g \in 1..Len(applied.groups) |->
                                                   applied.groups[g].tabIds])]]
  /\ UNCHANGED <<canonVars, preferences, dedupePlan, groupVars, stored, now,
                 lastCompletionTimestamp, previewPlans, uuids>>

\* the options page saves the settings with dryRun switched
SaveSettings ==
  /\ stored' = [stored EXCEPT !.dryRun = ~@]
  /\ UNCHANGED <<canonVars, dedupeVars, groupVars, now, lastCompletionTimestamp, previewPlans,
                 uuids, handlers, tabGroupIds, groupsCreated>>

\* the times at which the clock is read: the start, the end of the rate limit interval
\* that begins at the start, and past the life of a preview made at the start
ClockTimes ==
  {StartTime, StartTime + RATE_LIMIT_INTERVAL_MS, StartTime + PREVIEW_TTL_MS + 1}

Tick(time) ==
  /\ time > now
  /\ now' = time
  /\ UNCHANGED <<canonVars, dedupeVars, groupVars, stored, lastCompletionTimestamp,
                 previewPlans, uuids, handlers, tabGroupIds, groupsCreated>>

WorkerPageA == [url |-> "https://github.com/acme/widgets/pull/42", title |-> "Fix login"]

WorkerPageB == [url |-> "https://example.com/cart", title |-> "Your cart"]

\* windows: one tab, and two tabs of one page with a tab of another
WorkerWindows ==
  {WindowOf(<<[page |-> WorkerPageA, pinned |-> FALSE]>>),
   WindowOf(<<[page |-> WorkerPageA, pinned |-> FALSE], [page |-> WorkerPageA, pinned |-> FALSE],
              [page |-> WorkerPageB, pinned |-> FALSE]>>)}

\* the worker starts in a window whose first tab may be in a tab group
InitWorker ==
  /\ IdleCanon /\ IdleGroup
  /\ preferences = DefaultPreferences
  /\ dedupePlan = NoPlan
  /\ tabs \in WorkerWindows
  /\ stored \in {[DEFAULT_SYNC_SETTINGS EXCEPT !.hasApiKey = k, !.dryRun = d] :
                   k \in BOOLEAN, d \in BOOLEAN}
  /\ now = StartTime
  /\ lastCompletionTimestamp = 0
  /\ previewPlans = <<>>
  /\ uuids = 0
  /\ handlers = <<>>
  /\ \E n \in {0, 1} :
       /\ n <= Len(tabs)
       /\ groupsCreated = n
       /\ tabGroupIds = [id \in {tabs[i].id : i \in 1..n} |-> 1] @@ <<>>

NextWorker ==
  \/ \E message \in Messages : Receive(message)
  \/ \E h \in 1..Len(handlers), completion \in Completions : Complete(h, completion)
  \/ \E h \in 1..Len(handlers) : Apply(h)
  \/ SaveSettings
  \/ \E time \in ClockTimes : Tick(time)

SpecWorker == InitWorker /\ [][NextWorker]_vars

\* the tokens that preview responses have returned
PreviewTokens ==
  {handlers[h].response.token : h \in {k \in 1..Len(handlers) : handlers[k].response.kind = "preview"}}

\* C16: while dryRun is enabled, handleOrganizeMessage calls applyPlan, and so closes,
\* groups or ungroups tabs, only for a message that confirms a token that a preview
\* response returned before; every other message gets a preview or an error
C16_DryRunAppliesConfirmedOnly ==
  \A h \in 1..Len(handlers) :
    (handlers[h].dryRun
       /\ ~(handlers[h].message.confirm /\ handlers[h].message.token \in PreviewTokens)) =>
      /\ ~handlers[h].touched
      /\ handlers[h].pc # "applying"
      /\ handlers[h].response.kind \in {"none", "preview", "error"}

\* the part of C16 about the messages that do not confirm: with dryRun a message without
\* confirm never reaches applyPlan
UnconfirmedNeverApplied ==
  \A h \in 1..Len(handlers) :
    (handlers[h].dryRun /\ ~handlers[h].message.confirm) =>
      /\ handlers[h].pc # "applying"
      /\ handlers[h].response.kind # "applied"
      /\ ~handlers[h].touched

\* the part of C16 about tokens: a confirm with a token reaches applyPlan only with a
\* token that a preview response returned
TokenAppliedIsPreviewToken ==
  \A h \in 1..Len(handlers) :
    (handlers[h].message.token # 0 /\ handlers[h].message.confirm
       /\ (handlers[h].pc = "applying" \/ handlers[h].response.kind = "applied")) =>
      handlers[h].message.token \in PreviewTokens


(***************************************************************************)
(* groupByRules: the order of the user rules                               *)
(***************************************************************************)
\* user rules that all match the pages of github.com: a priority below the catalog's, two
\* rules of one priority above it, and a rule without a priority
PriorityRules ==
  {UserRule("Work", RegExp("literal", <<"github">>), NoRegex, <<100>>),
   UserRule("Repos", RegExp("literal", <<"github">>), NoRegex, <<2000>>),
   UserRule("Code", RegExp("literal", <<"github">>), NoRegex, <<2000>>),
   UserRule("Hub", RegExp("literal", <<"github">>), NoRegex, <<>>)}

InitPriority ==
  /\ IdleCanon /\ IdleWorker
  /\ preferences = DefaultPreferences
  /\ dedupePlan = NoPlan
  /\ tabs \in FewWindows
  /\ options \in [userRules : ListsOf(PriorityRules, MaxRuleEntries), maxTabsPerGroup : {0},
                  preservePinned : {TRUE}]
  /\ grouped = NotGrouped
  /\ groupedTabs = <<>>
  /\ sanitized = NoSanitized
  /\ categorized = NoGroups
  /\ lastClassification = <<>>
  /\ limiting = NotLimiting
  /\ capping = NotCapping

SpecPriority == InitPriority /\ [][NextGroup]_vars

\* rule.priority of a user rule, 1500 when none is declared
PriorityOf(rule) == IF rule.priority = <<>> THEN 1500 ELSE rule.priority[1]

\* the position in options.userRules of the rule that C17 says takes tab i: of the user
\* rules that match the tab, the one of the highest priority, the one declared first
\* among equals; 0 when none matches
BestUserRule(i) ==
  Bind(prepareTabForClassification(groupedTabs[i]), LAMBDA info :
    Bind({k \in 1..Len(options.userRules) :
            HasPattern(options.userRules[k]) /\ RuleMatches(options.userRules[k], info)},
         LAMBDA hits :
      IF hits = {} THEN 0
      ELSE Min({k \in hits :
                  \A j \in hits : PriorityOf(options.userRules[j]) <= PriorityOf(options.userRules[k])})))

\* C17: a tab that several user rules match is assigned to the one of the highest
\* declared priority, declaration order breaking ties, also when that rule is declared
\* later in the list
C17_HighestPriorityUserRule ==
  (grouped.called /\ ~grouped.threw) =>
    \A i \in 1..Len(groupedTabs) :
      (~SkipsPinned(groupedTabs[i], options.preservePinned) /\ BestUserRule(i) # 0) =>
        /\ groupedTabs[i].id \in DOMAIN lastClassification
        /\ lastClassification[groupedTabs[i].id].rule = options.userRules[BestUserRule(i)].name

\* the part of C17 that the code keeps: of the user rules that match a tab and have one
\* priority the rule declared first takes the tab
EqualPriorityFirstDeclared ==
  (grouped.called /\ ~grouped.threw) =>
    \A i \in 1..Len(groupedTabs) :
      (~SkipsPinned(groupedTabs[i], options.preservePinned) /\ FirstUserRule(i) # 0
         /\ PriorityOf(options.userRules[FirstUserRule(i)])
              = PriorityOf(options.userRules[BestUserRule(i)])) =>
        lastClassification[groupedTabs[i].id].rule = options.userRules[FirstUserRule(i)].name


(***************************************************************************)
(* computeDedupePlan: the promotions of keepAtLeastOnePerDomain            *)
(***************************************************************************)
\* the duplicates that the loop over the canonical groups puts in tabsToClose
CloseCandidates == {dup \in ClosingTabs : ~KeepsDuplicate(dup, preferences)}

\* the close candidates that the keepAtLeastOnePerDomain block moves to the keepers
Promoted == {dup \in CloseCandidates : dup.id \in SurvivorIds}

\* C18: with keepAtLeastOnePerDomain a close candidate is promoted to survivor only if
\* no tab that survives without promotion has its effective domain, at most one close
\* candidate is promoted per domain, and every other close candidate is in tabsToClose
C18_PromotionOnlyForLostDomain ==
  (dedupePlan.computed /\ preferences.keepAtLeastOnePerDomain) =>
    /\ \A dup \in Promoted :
         \A i \in 1..Len(tabs) :
           (tabs[i].id \in SurvivorIds /\ tabs[i].id \notin {p.id : p \in Promoted})
             => extractDomain(tabs[i].url) # extractDomain(dup.url)
    /\ \A dup \in Promoted, other \in Promoted :
         extractDomain(dup.url) = extractDomain(other.url) => dup.id = other.id
    /\ \A dup \in CloseCandidates \ Promoted : dup.id \in ClosedIds

\* the part of C18 that the code keeps: a close candidate is either promoted or in
\* tabsToClose, and a promoted one has a domain
PromotedOrClosed ==
  dedupePlan.computed =>
    /\ \A dup \in CloseCandidates : (dup.id \in SurvivorIds) # (dup.id \in ClosedIds)
    /\ \A dup \in Promoted : preferences.keepAtLeastOnePerDomain /\ Truthy(extractDomain(dup.url))


(***************************************************************************)
(* limitCategoryAssignments: the loop, pass by pass                        *)
(***************************************************************************)
MaxPerCategory == 2

\* the numbers of tabs of a category: none, one (a small category), MaxPerCategory
CategoryCounts == {0, 1, MaxPerCategory}

\* the categories of the assignment maps: two pairs of neighbours, a category that
\* shares keywords with the first pair, and 'Other'
LimitCategories == <<"Work/PM", "Dev/Code", "Maps/Travel", "Shopping", "News/Media", "Other">>

\* maxGroups in halves: -0.5, 1, 2.5, 3.5, 5 and 6.5
MaxGroupsHalves == {-1, 2, 5, 7, 10, 13}

\* Math.floor of a number given in halves
MathFloor(halves) == halves \div 2

\* the assignments of counts[c] tabs to category order[c], c = 1, 2, ..., as the loops
\* of categorizeTabInfos leave them
AssignmentsOf(order, counts) ==
  Bind(Flatten(Materialize([c \in 1..Len(order) |-> [k \in 1..counts[c] |-> order[c]] \o <<>>])),
       LAMBDA categories :
    Materialize([i \in 1..Len(categories) |->
      createCategoryAssignment([id |-> 100 + i - 1, index |-> i - 1], categories[i], "rule", Null)]))

Reversed(seq) == Materialize([i \in 1..Len(seq) |-> seq[Len(seq) + 1 - i]])

\* limitCategoryAssignments(assignments, maxGroups) is called
LimitCategoryAssignments ==
  /\ limiting = NotLimiting
  /\ capping = NotCapping
  /\ \E counts \in [1..Len(LimitCategories) -> CategoryCounts],
        order \in {LimitCategories, Reversed(LimitCategories)},
        maxGroups \in MaxGroupsHalves :
       limiting' = Limiting(AssignmentsOf(order, counts), maxGroups)
  /\ UNCHANGED <<canonVars, dedupeVars, workerVars, options, grouped, groupedTabs, sanitized,
                 categorized, lastClassification, capping>>

\* one pass of the loop `while (changed)` of limitCategoryAssignments
Pass ==
  /\ limiting.changed
  /\ \E pass \in {LimitPass(limiting.assignments, computeCategoryStats(limiting.assignments),
                            SafeMax(MathFloor(limiting.maxGroups)))} :
       limiting' = [limiting EXCEPT !.previous = limiting.assignments,
                                    !.assignments = pass.assignments,
                                    !.changed = pass.changed]
  /\ UNCHANGED <<canonVars, dedupeVars, workerVars, options, grouped, groupedTabs, sanitized,
                 categorized, lastClassification, capping>>

NextLimiting == LimitCategoryAssignments \/ Pass

SpecLimiting == InitDedupe /\ [][NextLimiting]_vars

\* the loop is not left to wait for ever at its head: weak fairness of Pass, written
\* with the guard of Pass, limiting.changed, where WF_vars(Pass) has ENABLED <<Pass>>_vars
\* (the two agree in every state that satisfies PassMoves)
FairLimiting == SpecLimiting /\ ([]<>(~limiting.changed) \/ []<><<Pass>>_vars)

\* the categories that hold a tab
CategoriesOf(assignments) == {assignments[i].category : i \in 1..Len(assignments)}

\* max(1, min(5, floor(maxGroups)))
GroupBound == Max({1, Min({5, MathFloor(limiting.maxGroups)})})

\* the loop has ended
Returned == ~limiting.changed

\* every pass that changes an assignment lowers the number of categories that hold a tab
PassLowersCategories ==
  [][(limiting.changed /\ limiting'.assignments # limiting.assignments) =>
       Cardinality(CategoriesOf(limiting'.assignments))
         < Cardinality(CategoriesOf(limiting.assignments))]_vars

\* a pass that sets `changed` has changed an assignment, so that a step of Pass is
\* possible wherever the loop is at its head
PassMoves ==
  limiting.changed =>
    \E pass \in {LimitPass(limiting.assignments, computeCategoryStats(limiting.assignments),
                            SafeMax(MathFloor(limiting.maxGroups)))} :
      pass.changed => pass.assignments # limiting.assignments

\* on return at most max(1, min(5, floor(maxGroups))) categories hold a tab, and the Map
\* is the one the loop as a whole computes
WithinBound ==
  Returned =>
    /\ Cardinality(CategoriesOf(limiting.assignments)) <= GroupBound
    /\ limiting.assignments
         = limitCategoryAssignments(limiting.initial, MathFloor(limiting.maxGroups))

\* C19: limitCategoryAssignments terminates for every assignment map and every
\* maxGroups, each pass that changes anything lowers the number of categories that hold
\* a tab, and on return that number is at most max(1, min(5, floor(maxGroups)))
C19_LimitTerminatesWithinBound ==
  /\ limiting.changed ~> Returned
  /\ []PassMoves
  /\ PassLowersCategories
  /\ []WithinBound

\* C19 happens: the loop has returned after an overflow pass and a later pass that merged
\* a small category
C19_Witness ==
  /\ Returned
  /\ Cardinality(CategoriesOf(limiting.initial)) > GroupBound
  /\ \E i \in 1..Len(limiting.assignments) :
       \E k \in 1..Len(limiting.assignments[i].mergeHistory) :
         limiting.assignments[i].mergeHistory[k].reason = "overflow"
  /\ \E i \in 1..Len(limiting.assignments) :
       \E k \in 1..Len(limiting.assignments[i].mergeHistory) :
         limiting.assignments[i].mergeHistory[k].reason # "overflow"


(***************************************************************************)
(* limitCategoryAssignments: the merge of a small category                 *)
(***************************************************************************)
\* the entries of computeCategoryStats at the head of the loop
HeadStats == computeCategoryStats(limiting.assignments)

\* the names of the entries of fewer than 2 tabs that are not 'Other'
SmallNames(stats) ==
  {stats[s].name : s \in {s \in 1..Len(stats) : stats[s].name # "Other" /\ stats[s].count < 2}}

\* the names of the entries that survive the merge of `name`
Surviving(name, stats) == {stats[s].name : s \in 1..Len(stats)} \ {name}

\* the highest similarity of `name` to a surviving category
HighestSimilarity(name, stats) ==
  Max({computeCategorySimilarity(name, other) : other \in Surviving(name, stats)})

\* the surviving categories of highest similarity to `name`
MostSimilar(name, stats) ==
  {other \in Surviving(name, stats) :
     computeCategorySimilarity(name, other) = HighestSimilarity(name, stats)}

\* the pass at the head of the loop finds nothing to merge for overflow, at least 4
\* categories, and a category of fewer than 2 tabs that is not 'Other'
SmallCase ==
  /\ limiting.changed
  /\ Len(HeadStats) <= SafeMax(MathFloor(limiting.maxGroups))
  /\ Len(HeadStats) >= 4
  /\ SmallNames(HeadStats) # {}

\* the step moves the tabs of category `name` to `target`, records the merge with
\* `reason`, and leaves every other assignment as it was
MergedInto(name, target, reason) ==
  /\ Len(limiting'.assignments) = Len(limiting.assignments)
  /\ \A i \in 1..Len(limiting.assignments) :
       IF limiting.assignments[i].category = name
       THEN limiting'.assignments[i] =
              [limiting.assignments[i] EXCEPT
                 !.category = target,
                 !.mergeHistory = Append(@, [from |-> name, to |-> target, reason |-> reason])]
       ELSE limiting'.assignments[i] = limiting.assignments[i]

\* C20: when the pass has at least 4 categories after overflow handling and a category
\* other than 'Other' has fewer than 2 tabs, the tabs of such a category are merged with
\* reason 'small' into a surviving category of highest similarity, and into 'Other' when
\* no surviving category has positive similarity to it
C20_SmallMergedIntoMostSimilarOrOther ==
  [][SmallCase =>
       \E name \in SmallNames(HeadStats) :
         \E target \in (IF HighestSimilarity(name, HeadStats) > 0
                        THEN MostSimilar(name, HeadStats) ELSE {"Other"}) :
           MergedInto(name, target, "small")]_vars

\* the part of C20 that the code keeps: the tabs of the small category are merged with
\* reason 'small' into a surviving category of highest similarity, be it positive or 0
SmallMergedIntoMostSimilar ==
  [][SmallCase =>
       \E name \in SmallNames(HeadStats) :
         \E target \in MostSimilar(name, HeadStats) : MergedInto(name, target, "small")]_vars

\* no surviving category has positive similarity to the small category whose tabs a
\* 'small' merge has just moved, and they were not moved to 'Other'
SmallMergedWithoutSimilarity ==
  \E i \in 1..Len(limiting.assignments) :
    /\ limiting.assignments[i].category # limiting.previous[i].category
    /\ limiting.assignments[i].mergeHistory[Len(limiting.assignments[i].mergeHistory)].reason = "small"
    /\ limiting.assignments[i].category # "Other"
    /\ HighestSimilarity(limiting.previous[i].category, computeCategoryStats(limiting.previous)) = 0


(***************************************************************************)
(* limitCategoryAssignments: the overflow step                             *)
(***************************************************************************)
\* the number of tabs of category `name` at the head of the loop
CountOf(name) == Cardinality({i \in 1..Len(limiting.assignments) : limiting.assignments[i].category = name})

\* the place of a category in CATEGORY_ORDER: the display priority falls as it grows
DisplayPlace(name) == CHOOSE k \in 1..Len(CATEGORY_ORDER) : CATEGORY_ORDER[k] = name

\* category `kept` ranks above category `merged`: more tabs, or as many and a higher
\* display priority
RanksAbove(kept, merged) ==
  \/ CountOf(kept) > CountOf(merged)
  \/ CountOf(kept) = CountOf(merged) /\ DisplayPlace(kept) < DisplayPlace(merged)

\* the pass at the head of the loop finds more categories than the target
OverflowCase ==
  /\ limiting.changed
  /\ Cardinality(CategoriesOf(limiting.assignments)) > GroupBound

\* the step moves the tabs of the categories `names` to 'Other', records each move with
\* reason 'overflow', and leaves every other assignment as it was
OverflowMerged(names) ==
  /\ Len(limiting'.assignments) = Len(limiting.assignments)
  /\ \A i \in 1..Len(limiting.assignments) :
       IF limiting.assignments[i].category \in names
       THEN limiting'.assignments[i] =
              [limiting.assignments[i] EXCEPT
                 !.category = "Other",
                 !.mergeHistory = Append(@, [from |-> limiting.assignments[i].category,
                                             to |-> "Other", reason |-> "overflow"])]
       ELSE limiting'.assignments[i] = limiting.assignments[i]

\* C21: when the pass finds more categories than the target, the overflow step merges
\* into 'Other', with reason 'overflow', exactly the lowest-ranked categories in excess:
\* 'Other' is not among them, every category that is kept has at least as many tabs as
\* every merged one and, with as many tabs, the higher display priority, and the
\* categories left are as many as the target
C21_OverflowMergesLowestRanked ==
  [][OverflowCase =>
       \E merged \in SUBSET (CategoriesOf(limiting.assignments) \ {"Other"}) :
         /\ merged # {}
         /\ OverflowMerged(merged)
         /\ \A kept \in CategoriesOf(limiting.assignments) \ (merged \cup {"Other"}) :
              \A name \in merged : RanksAbove(kept, name)
         /\ Cardinality(CategoriesOf(limiting'.assignments)) = GroupBound]_vars

\* the category that tab i left in the latest pass, "" when the pass did not move it
LeftBy(i) ==
  IF limiting.assignments[i].category # limiting.previous[i].category
  THEN limiting.previous[i].category ELSE ""

\* C21 happens: an overflow step has merged a category and kept another of as many tabs,
\* and has kept the tabs that 'Other' held before
C21_Witness ==
  /\ \E i \in 1..Len(limiting.assignments), j \in 1..Len(limiting.assignments) :
       /\ LeftBy(i) # ""
       /\ limiting.assignments[i].mergeHistory[Len(limiting.assignments[i].mergeHistory)].reason = "overflow"
       /\ limiting.previous[j].category # "Other"
       /\ LeftBy(j) = ""
       /\ Cardinality({k \in 1..Len(limiting.previous) :
                         limiting.previous[k].category = limiting.previous[i].category})
            = Cardinality({k \in 1..Len(limiting.previous) :
                             limiting.previous[k].category = limiting.previous[j].category})
  /\ \E j \in 1..Len(limiting.assignments) :
       limiting.previous[j].category = "Other" /\ limiting.assignments[j].mergeHistory = <<>>



(***************************************************************************)
(* the merge history that limitCategoryAssignments and capTotalGroups keep *)
(***************************************************************************)
MaxCapTabs == 8

\* the pages of ManyPages and a page of a catalog host
CapPages ==
  Append(ManyPages, [url |-> "https://github.com/acme/widgets/pull/42", title |-> "Fix login"])

CapWindows ==
  {WindowOf(Bind(SortedInts(chosen), LAMBDA order :
     Materialize([k \in 1..Len(order) |-> [page |-> CapPages[order[k]], pinned |-> FALSE]]))) :
     chosen \in {c \in SUBSET (1..Len(CapPages)) : Cardinality(c) <= MaxCapTabs}}

CapOptions == [userRules : ManyRuleLists, maxTabsPerGroup : {0, 2}, preservePinned : {TRUE}]

\* groupByRules reaches `capTotalGroups(records, assignments, 5)`
CapTotalGroups ==
  /\ limiting = NotLimiting
  /\ capping = NotCapping
  /\ \E window \in CapWindows, capOptions \in CapOptions :
       \E before \in {BeforeCap(window, capOptions)} :
         capping' = Capping(before.records, before.assignments)
  /\ UNCHANGED <<canonVars, dedupeVars, workerVars, options, grouped, groupedTabs, sanitized,
                 categorized, lastClassification, limiting>>

\* one turn of the loop of capTotalGroups
CapTurn ==
  /\ capping.running
  /\ \E pass \in {CapPass(capping.working, capping.other, capping.assignments, SafeMax(5))} :
       capping' = [capping EXCEPT !.working = pass.working, !.other = pass.other,
                                  !.assignments = pass.assignments, !.running = pass.running]
  /\ UNCHANGED <<canonVars, dedupeVars, workerVars, options, grouped, groupedTabs, sanitized,
                 categorized, lastClassification, limiting>>

NextMerging == LimitCategoryAssignments \/ Pass \/ CapTotalGroups \/ CapTurn

SpecMerging == InitDedupe /\ [][NextMerging]_vars

MergeReasons == {"overflow", "small", "limit"}

\* the history of an assignment is a chain from its initial category to its category
Chained(assignment) ==
  Bind(assignment.mergeHistory, LAMBDA history :
    /\ \A k \in 1..Len(history) :
         /\ DOMAIN history[k] = {"from", "to", "reason"}
         /\ history[k].reason \in MergeReasons
         /\ history[k].from # history[k].to
         /\ history[k].from = IF k = 1 THEN assignment.initialCategory ELSE history[k - 1].to
    /\ assignment.category =
         IF history = <<>> THEN assignment.initialCategory ELSE history[Len(history)].to)

\* from `before` to `after` every tab whose category changes gets one entry more, with
\* its old category, its new one and a reason of `reasons`, the new category is 'Other'
\* or one of `held`, and every other assignment stays as it was
Recorded(before, after, held, reasons) ==
  /\ Len(after) = Len(before)
  /\ \A i \in 1..Len(before) :
       IF after[i].category # before[i].category
       THEN /\ after[i].category \in held \cup {"Other"}
            /\ \E reason \in reasons :
                 after[i] = [before[i] EXCEPT
                               !.category = after[i].category,
                               !.mergeHistory = Append(@, [from |-> before[i].category,
                                                           to |-> after[i].category,
                                                           reason |-> reason])]
       ELSE after[i] = before[i]

\* the names of the records of working that hold a tab
HeldBy(working) == {working[k].name : k \in {j \in 1..Len(working) : Len(working[j].tabIds) >= 1}}

\* the ids of the tabs of the records that the turn takes out of working
MovedBy(working, after) ==
  UNION {{working[k].tabIds[t] : t \in 1..Len(working[k].tabIds)} :
           k \in {j \in 1..Len(working) : \A a \in 1..Len(after) : after[a].uid # working[j].uid}}

\* C22: every pass of limitCategoryAssignments and every turn of capTotalGroups appends
\* one {from, to, reason} entry to the history of each tab it moves, with reason
\* 'overflow' or 'small' in the one and 'limit' in the other, and moves tabs only to
\* 'Other' or to a group that holds a tab at that time; each history is a chain from the
\* tab's initial category in which no entry has from = to, and the tab's category is
\* the `to` of its last entry
C22_MergeHistoryIsChain ==
  /\ [][/\ limiting.changed =>
             Recorded(limiting.assignments, limiting'.assignments,
                      CategoriesOf(limiting.assignments), {"overflow", "small"})
        /\ capping.running =>
             /\ Recorded(capping.assignments, capping'.assignments,
                         HeldBy(capping.working), {"limit"})
             /\ \A i \in 1..Len(capping.assignments) :
                  capping.assignments[i].id \in MovedBy(capping.working, capping'.working)
                    => Len(capping'.assignments[i].mergeHistory)
                         = Len(capping.assignments[i].mergeHistory) + 1]_vars
  /\ [](/\ \A i \in 1..Len(limiting.assignments) : Chained(limiting.assignments[i])
        /\ \A i \in 1..Len(capping.assignments) : Chained(capping.assignments[i]))

\* C22 happens: a tab that limitCategoryAssignments has merged into 'Other' is merged by
\* capTotalGroups into a group that holds a tab
C22_Witness ==
  \E i \in 1..Len(capping.assignments) :
    Bind(capping.assignments[i].mergeHistory, LAMBDA history :
      /\ Len(history) >= 2
      /\ history[1].reason = "overflow"
      /\ history[Len(history)].reason = "limit"
      /\ capping.assignments[i].category # "Other")

\* the loop of capTotalGroups ends with what capTotalGroups returns
CapTurnsAgree ==
  (capping # NotCapping /\ ~capping.running) =>
    Bind(capTotalGroups(capping.records, capping.initial, 5), LAMBDA capped :
      /\ capped.records = SelectSeq(capping.working, LAMBDA record : Len(record.tabIds) > 0)
      /\ capped.assignments = capping.assignments)



(***************************************************************************)
(* Rules before keywords                                                   *)
(***************************************************************************)
MaxScoringTabs == 2

\* a page of a catalog host whose keywords speak for another category, the same page on
\* a host outside the catalog, a page that only the keywords classify and a page that
\* nothing classifies
ScoringPages ==
  {[url |-> "https://github.com/acme/board", title |-> "Jira ticket sprint backlog"],
   [url |-> "https://example.com/board", title |-> "Jira ticket sprint backlog"],
   [url |-> "https://example.com/cart", title |-> "Your cart"],
   [url |-> "https://example.com/", title |-> "Example"]}

\* no user rules, a rule for the host outside the catalog, a rule for the catalog host
ScoringRuleLists ==
  {<<>>,
   <<UserRule("Reading", RegExp("literal", <<"example">>), NoRegex, <<>>)>>,
   <<UserRule("Mine", RegExp("literal", <<"github">>), NoRegex, <<>>)>>}

InitScoring ==
  /\ IdleCanon /\ IdleWorker
  /\ preferences = DefaultPreferences
  /\ dedupePlan = NoPlan
  /\ tabs \in {WindowOf(kinds) :
                 kinds \in ListsOf({[page |-> p, pinned |-> FALSE] : p \in ScoringPages},
                                   MaxScoringTabs)}
  /\ options \in [userRules : ScoringRuleLists, maxTabsPerGroup : {0}, preservePinned : {TRUE}]
  /\ grouped = NotGrouped
  /\ groupedTabs = <<>>
  /\ sanitized = NoSanitized
  /\ categorized = NoGroups
  /\ lastClassification = <<>>
  /\ limiting = NotLimiting
  /\ capping = NotCapping

NextScoring == GroupByRules \/ CategorizeTabs

SpecScoring == InitScoring /\ [][NextScoring]_vars

\* the category a diagnostic says the tab had before any merge
InitialCategoryOf(diagnostic) ==
  IF diagnostic.merge = <<>> THEN diagnostic.group ELSE diagnostic.merge[1].from

\* what the user rules of the options and the catalog say about tab i
UserMatch(i) ==
  matchCompiledRule(compileUserRules(options.userRules), prepareTabForClassification(tabs[i]))

CatalogMatch(i) == matchCategoryRule(prepareTabForClassification(tabs[i]))

\* C23: groupByRules and categorizeTabs classify a tab by its keywords only when no rule
\* they match against matches it (the user rules and the catalog in groupByRules, the
\* catalog in categorizeTabs); a tab that a user rule matches starts in the group of
\* that rule, and a tab that only a catalog rule matches starts in the category of that
\* rule, whatever the keywords score
C23_RulesBeforeKeywords ==
  /\ grouped.called =>
       \A i \in 1..Len(tabs) :
         Bind(grouped.diagnostics[tabs[i].id], LAMBDA diagnostic :
           /\ diagnostic.reason = "category-keywords"
                => ~UserMatch(i).matched /\ ~CatalogMatch(i).matched
           /\ UserMatch(i).matched
                => /\ diagnostic.reason = "rule"
                   /\ InitialCategoryOf(diagnostic) = UserMatch(i).name
           /\ (~UserMatch(i).matched /\ CatalogMatch(i).matched)
                => /\ diagnostic.reason = "category-rule"
                   /\ InitialCategoryOf(diagnostic) = normalizeCategoryName(CatalogMatch(i).category))
  /\ categorized.called =>
       \A i \in 1..Len(tabs) :
         Bind(categorized.diagnostics[tabs[i].id], LAMBDA diagnostic :
           /\ diagnostic.reason = "category-keywords" => ~CatalogMatch(i).matched
           /\ CatalogMatch(i).matched
                => /\ diagnostic.reason = "category-rule"
                   /\ InitialCategoryOf(diagnostic) = normalizeCategoryName(CatalogMatch(i).category))

\* C23 happens: groupByRules and categorizeTabs have classified by its catalog rule a
\* tab whose keywords score highest for another category, and by its keywords a tab
\* that no rule matches
C23_Witness ==
  /\ grouped.called /\ categorized.called
  /\ \E i \in 1..Len(tabs), j \in 1..Len(tabs) :
       /\ ~UserMatch(i).matched /\ CatalogMatch(i).matched
       /\ scoreCategory(prepareTabForClassification(tabs[i])).category
            # normalizeCategoryName(CatalogMatch(i).category)
       /\ grouped.diagnostics[tabs[i].id].reason = "category-rule"
       /\ categorized.diagnostics[tabs[i].id].reason = "category-rule"
       /\ grouped.diagnostics[tabs[j].id].reason = "category-keywords"
       /\ categorized.diagnostics[tabs[j].id].reason = "category-keywords"



(***************************************************************************)
(* The order of the tab ids of a group                                     *)
(***************************************************************************)
\* the rules of ManyRuleLists and rules that put the pages of three hosts in one bucket
ChunkRuleLists ==
  ManyRuleLists \cup {ManyRules(<<"Alpha", "Alpha", "Alpha", "Gamma", "Omega", "Sigma">>)}

InitChunks ==
  /\ IdleCanon /\ IdleWorker
  /\ preferences = DefaultPreferences
  /\ dedupePlan = NoPlan
  /\ tabs \in CapWindows
  /\ options \in [userRules : ChunkRuleLists, maxTabsPerGroup : {0, 2}, preservePinned : {TRUE}]
  /\ grouped = NotGrouped
  /\ groupedTabs = <<>>
  /\ sanitized = NoSanitized
  /\ categorized = NoGroups
  /\ lastClassification = <<>>
  /\ limiting = NotLimiting
  /\ capping = NotCapping

SpecChunks == InitChunks /\ [][NextGroup]_vars

\* the position index of the tab with the id
TabIndexOf(id) == tabs[CHOOSE i \in 1..Len(tabs) : tabs[i].id = id].index

\* the tab ids of each group of the result are in ascending order of the position index
GroupsAscending ==
  grouped.called =>
    \A k \in 1..Len(grouped.groups) :
      \A a, b \in 1..Len(grouped.groups[k].tabIds) :
        a < b => TabIndexOf(grouped.groups[k].tabIds[a]) < TabIndexOf(grouped.groups[k].tabIds[b])

\* the names of the user rules whose bucket the result holds in more than one chunk
SplitBuckets ==
  {base \in {truncateLabel(options.userRules[r].name) : r \in 1..Len(options.userRules)} :
     /\ base \in GroupNames
     /\ CandidateName(base, 1) \in GroupNames}

\* every tab of chunk `first` comes before every tab of chunk `second`
ChunkPrecedes(first, second) ==
  \A k, l \in 1..Len(grouped.groups) :
    (grouped.groups[k].name = first /\ grouped.groups[l].name = second) =>
      \A a \in 1..Len(grouped.groups[k].tabIds), b \in 1..Len(grouped.groups[l].tabIds) :
        TabIndexOf(grouped.groups[k].tabIds[a]) < TabIndexOf(grouped.groups[l].tabIds[b])

\* C24: in every group of the result of groupByRules the tab ids are in ascending order
\* of the tabs' position index, and of the chunks of a split bucket every tab of an
\* earlier chunk ('Name') comes before every tab of a later one ('Name (2)')
C24_GroupsInTabOrder ==
  /\ GroupsAscending
  /\ grouped.called =>
       \A base \in SplitBuckets :
         \A m \in 0..Len(tabs), n \in 0..Len(tabs) :
           m < n => ChunkPrecedes(CandidateName(base, m), CandidateName(base, n))

\* a chunk of a split bucket holds a tab that capTotalGroups has merged into it
ChunkReceivedMerge ==
  /\ grouped.called
  /\ \E base \in SplitBuckets, k \in 1..Len(grouped.groups) :
       /\ grouped.groups[k].name = base
       /\ \E a \in 1..Len(grouped.groups[k].tabIds) :
            grouped.diagnostics[grouped.groups[k].tabIds[a]].merge # <<>>



(***************************************************************************)
(* The service worker: the life of a preview                               *)
(***************************************************************************)
MaxPreviewMessages == 2

\* the worker starts with an API key and dryRun in a window of three tabs, two of them
\* of one page; the popup sends organize messages and the clock goes on, the settings
\* stay as they are
InitPreview ==
  /\ IdleCanon /\ IdleGroup
  /\ preferences = DefaultPreferences
  /\ dedupePlan = NoPlan
  /\ tabs = WindowOf(<<[page |-> WorkerPageA, pinned |-> FALSE],
                       [page |-> WorkerPageA, pinned |-> FALSE],
                       [page |-> WorkerPageB, pinned |-> FALSE]>>)
  /\ stored = [DEFAULT_SYNC_SETTINGS EXCEPT !.hasApiKey = TRUE, !.dryRun = TRUE]
  /\ now = StartTime
  /\ lastCompletionTimestamp = 0
  /\ previewPlans = <<>>
  /\ uuids = 0
  /\ handlers = <<>>
  /\ tabGroupIds = <<>>
  /\ groupsCreated = 0

NextPreview ==
  \/ \E message \in Messages : Len(handlers) < MaxPreviewMessages /\ Handle(message)
  \/ \E h \in 1..Len(handlers), completion \in Completions : Complete(h, completion)
  \/ \E h \in 1..Len(handlers) : Apply(h)
  \/ \E time \in ClockTimes : Tick(time)

SpecPreview == InitPreview /\ [][NextPreview]_vars

PreviewExpired == ErrorResponse("Preview expired. Please analyze the tabs again.")

\* the step starts the run of a message that confirms `token`
Confirms(token) ==
  /\ Len(handlers') = Len(handlers) + 1
  /\ handlers'[Len(handlers')].message = [confirm |-> TRUE, token |-> token]

\* C25: a confirm message for a token whose preview was stored more than PREVIEW_TTL_MS
\* before the message is handled fails with 'Preview expired', its run never reaches
\* applyPlan, it changes no tab, and the plan is no longer stored
C25_ExpiredPreviewNeverApplied ==
  [][/\ \A token \in DOMAIN previewPlans :
          (Confirms(token) /\ now - previewPlans[token].createdAt > PREVIEW_TTL_MS) =>
            /\ handlers'[Len(handlers')].pc = "done"
            /\ handlers'[Len(handlers')].response = PreviewExpired
            /\ ~handlers'[Len(handlers')].touched
            /\ tabs' = tabs
            /\ tabGroupIds' = tabGroupIds
            /\ token \notin DOMAIN previewPlans'
     /\ \A h \in 1..Len(handlers) : handlers[h].pc = "done" => handlers'[h] = handlers[h]]_vars

\* C25 happens: the one confirm of the token of a preview has failed with 'Preview
\* expired' after the clock went past the life of the preview
C25_Witness ==
  /\ Len(handlers) = 2
  /\ handlers[1].response.kind = "preview"
  /\ handlers[2].message = [confirm |-> TRUE, token |-> handlers[1].response.token]
  /\ handlers[2].response = PreviewExpired
  /\ now > StartTime + PREVIEW_TTL_MS



(***************************************************************************)
(* The service worker: the rate limit of the completion API                *)
(***************************************************************************)
\* the runs for which fetchGroupingFromLLM has sent a request to the completion API
Requesting == {h \in 1..Len(handlers) : handlers[h].requestedAt # 0}

\* C26: any two requests that fetchGroupingFromLLM sends to the completion API start at
\* least RATE_LIMIT_INTERVAL_MS apart, also when a message arrives while an earlier
\* request is pending and when the earlier request has failed
C26_RequestsRateLimited ==
  \A h \in Requesting, k \in Requesting :
    (h < k) => handlers[k].requestedAt - handlers[h].requestedAt >= RATE_LIMIT_INTERVAL_MS

\* the part of C26 that holds: a request does not start less than RATE_LIMIT_INTERVAL_MS
\* after the latest completion that has returned
RequestsAfterCompletion ==
  \A h \in Requesting :
    handlers[h].requestedAt - lastCompletionTimestamp >= RATE_LIMIT_INTERVAL_MS
      \/ handlers[h].requestedAt <= lastCompletionTimestamp

\* a request starts while an earlier one is pending
RequestWhilePending ==
  \E h \in Requesting, k \in Requesting :
    /\ h < k
    /\ handlers[h].pc = "completing"
    /\ handlers[k].pc = "completing"
    /\ handlers[k].requestedAt - handlers[h].requestedAt < RATE_LIMIT_INTERVAL_MS

\* a request starts less than the interval after one that has failed
RequestAfterFailure ==
  \E h \in Requesting, k \in Requesting :
    /\ h < k
    /\ handlers[h].response = ErrorResponse("OpenAI request failed")
    /\ handlers[k].requestedAt - handlers[h].requestedAt < RATE_LIMIT_INTERVAL_MS



(***************************************************************************)
(* The service worker: applying a plan to the live window                  *)
(*                                                                         *)
(* A run of handleOrganizeTabsNoLLM is a record of `handlers` too: its pc  *)
(* is "applyingNoLlm" while applyNoLlmPlan waits for the window's tabs,    *)
(* and its plan holds the ids of dedupePlan.tabsToClose, the groups of     *)
(* groupingArray and preservePinned.                                       *)
(***************************************************************************)
MaxApplyTabs == 3

\* the user rules a message of type ORGANIZE_TABS_NOLLM carries
NoLlmRuleLists ==
  {<<>>, <<UserRule("Work", RegExp("literal", <<"github">>), NoRegex, <<>>)>>}

\* handleOrganizeTabsNoLLM({dryRun, userRules}) up to the first wait of applyNoLlmPlan
OrganizeNoLLM(dryRun, userRules) ==
  /\ \E prefs \in {loadPreferences(stored)} :
       \E handler \in {[Handler([confirm |-> FALSE, token |-> 0], prefs, "done", dryRun, <<>>,
                                EmptyPlan(prefs), NoResponse)
                          EXCEPT !.type = "ORGANIZE_TABS_NOLLM"]} :
         handlers' = Append(handlers,
           IF tabs = <<>>
           THEN [handler EXCEPT !.response =
                   ErrorResponse("No tabs were found in the current window.")]
           ELSE
             Bind(computeDedupePlan(tabs, prefs), LAMBDA dedupe :
             Bind(groupByRules(dedupe.survivors,
                               [userRules |-> userRules, maxTabsPerGroup |-> prefs.maxTabsPerGroup,
                                preservePinned |-> prefs.preservePinned]).groups, LAMBDA groupingArray :
               IF dryRun
               THEN [handler EXCEPT !.response = [kind |-> "preview", token |-> 0, error |-> ""]]
               ELSE [handler EXCEPT !.pc = "applyingNoLlm",
                                    !.survivors = dedupe.survivors,
                                    !.plan = PlanFrom(dedupe, groupingArray, prefs)])))
  /\ UNCHANGED <<canonVars, dedupeVars, groupVars, stored, now, lastCompletionTimestamp,
                 previewPlans, uuids, tabGroupIds, groupsCreated>>

\* applyNoLlmPlan of run h works on the window, and the run responds
ApplyNoLlm(h) ==
  /\ handlers[h].pc = "applyingNoLlm"
  /\ \E applied \in {applyNoLlmPlan(handlers[h].plan, tabs, tabGroupIds, groupsCreated)} :
       /\ tabs' = applied.tabs
       /\ tabGroupIds' = applied.groupIds
       /\ groupsCreated' = applied.created
       /\ handlers' = [handlers EXCEPT ![h] =
            [@ EXCEPT !.pc = "done", !.survivors = <<>>,
                      !.response = [kind |-> "applied", token |-> 0, error |-> ""],
                      !.touched = \/ applied.removalIds # <<>>
                                  \/ applied.groups # <<>>
                                  \/ applied.ungrouped # {},
                      !.removalIds = applied.removalIds,
                      !.groupedIds = Materialize([g \in 1..Len(applied.groups) |->
                                                   applied.groups[g].tabIds])]]
  /\ UNCHANGED <<canonVars, preferences, dedupePlan, groupVars, stored, now,
                 lastCompletionTimestamp, previewPlans, uuids>>

\* the user closes tab i of the window
CloseTab(i) ==
  /\ tabs' = AfterRemoval(tabs, <<tabs[i].id>>)
  /\ tabGroupIds' = [id \in DOMAIN tabGroupIds \ {tabs[i].id} |-> tabGroupIds[id]] @@ <<>>
  /\ UNCHANGED <<canonVars, preferences, dedupePlan, groupVars, stored, now,
                 lastCompletionTimestamp, previewPlans, uuids, handlers, groupsCreated>>

\* the user pins tab i of the window
PinTab(i) ==
  /\ ~tabs[i].pinned
  /\ tabs' = [tabs EXCEPT ![i].pinned = TRUE]
  /\ UNCHANGED <<canonVars, preferences, dedupePlan, groupVars, stored, now,
                 lastCompletionTimestamp, previewPlans, uuids, handlers, tabGroupIds,
                 groupsCreated>>

\* no run of the message type has started
NoRunOf(type) == \A h \in 1..Len(handlers) : handlers[h].type # type

\* the worker starts with an API key and without dryRun in a window of tabs of one page
\* and a last tab of another; the popup sends one organize message of each type, and
\* the user closes and pins tabs
InitApply ==
  /\ IdleCanon /\ IdleGroup
  /\ preferences = DefaultPreferences
  /\ dedupePlan = NoPlan
  /\ tabs = WindowOf([i \in 1..MaxApplyTabs |->
                        [page |-> IF i = MaxApplyTabs THEN WorkerPageB ELSE WorkerPageA,
                         pinned |-> FALSE]])
  /\ stored = [DEFAULT_SYNC_SETTINGS EXCEPT !.hasApiKey = TRUE]
  /\ now = StartTime
  /\ lastCompletionTimestamp = 0
  /\ previewPlans = <<>>
  /\ uuids = 0
  /\ handlers = <<>>
  /\ tabGroupIds = <<>>
  /\ groupsCreated = 0

NextApply ==
  \/ NoRunOf("organize-tabs") /\ Handle([confirm |-> FALSE, token |-> 0])
  \/ \E dryRun \in BOOLEAN, userRules \in NoLlmRuleLists :
       NoRunOf("ORGANIZE_TABS_NOLLM") /\ OrganizeNoLLM(dryRun, userRules)
  \/ \E h \in 1..Len(handlers), completion \in Completions : Complete(h, completion)
  \/ \E h \in 1..Len(handlers) : Apply(h)
  \/ \E h \in 1..Len(handlers) : ApplyNoLlm(h)
  \/ \E i \in 1..Len(tabs) : CloseTab(i)
  \/ \E i \in 1..Len(tabs) : PinTab(i)

SpecApply == InitApply /\ [][NextApply]_vars

\* the ids of a sequence of tabs, and the elements of a sequence of ids
IdsOf(window) == {window[t].id : t \in 1..Len(window)}

Elements(ids) == {ids[k] : k \in 1..Len(ids)}

\* the step is applyPlan or applyNoLlmPlan of run h
Applies(h) == handlers[h].pc \in {"applying", "applyingNoLlm"} /\ handlers'[h].pc = "done"

AppliedStalePlan(h) ==
  /\ handlers[h].response.kind = "applied"
  /\ Elements(handlers[h].plan.tabsToClose) \ Elements(handlers[h].removalIds) # {}
  /\ \E g \in 1..Len(handlers[h].plan.groups) :
       \E id \in Elements(handlers[h].plan.groups[g].tabIds) :
         \A k \in 1..Len(handlers[h].groupedIds) : id \notin Elements(handlers[h].groupedIds[k])

MaxTokenMessages == 3

NextTokens ==
  \/ \E message \in Messages : Len(handlers) < MaxTokenMessages /\ Handle(message)
  \/ \E h \in 1..Len(handlers), completion \in Completions : Complete(h, completion)
  \/ \E h \in 1..Len(handlers) : Apply(h)

SpecTokens == InitPreview /\ [][NextTokens]_vars

\* the runs that took the plan stored under the token and called applyPlan with it
AppliersOf(token) ==
  {h \in 1..Len(handlers) :
     /\ handlers[h].message = [confirm |-> TRUE, token |-> token]
     /\ handlers[h].pc = "applying" \/ handlers[h].response.kind = "applied"}

\* C28: the plan stored under a preview token is applied at most once; the token is no
\* longer stored when applyPlan starts, and a confirm with the token that is handled
\* after another one took the plan, be that apply still running or not, fails with
\* 'Preview expired'
C28_TokenSingleUse ==
  /\ [](\A token \in 1..uuids :
          /\ Cardinality(AppliersOf(token)) <= 1
          /\ AppliersOf(token) # {} => token \notin DOMAIN previewPlans)
  /\ [][\A token \in 1..uuids :
          (Confirms(token) /\ AppliersOf(token) # {}) =>
            /\ handlers'[Len(handlers')].pc = "done"
            /\ handlers'[Len(handlers')].response = PreviewExpired
            /\ tabs' = tabs]_vars

\* C28 happens: a second confirm of a token has failed with 'Preview expired' while the
\* apply of the first is still running
C28_Witness ==
  \E h, k \in 1..Len(handlers) :
    /\ h < k
    /\ handlers[h].message.confirm /\ handlers[h].message.token \in PreviewTokens
    /\ handlers[k].message = handlers[h].message
    /\ handlers[h].pc = "applying"
    /\ handlers[k].response = PreviewExpired



(***************************************************************************)
(* computeDedupePlan: survivors and tabsToClose partition the tabs         *)
(***************************************************************************)
\* C29: every tab of the input is either in survivors or in tabsToClose and in neither
\* twice, survivors holds its tabs in the order of the input, the keeper of every
\* duplicate set is in survivors, and the duplicateOf of every entry of tabsToClose is
\* the id of a tab in survivors
C29_PlanPartitionsTabs ==
  dedupePlan.computed =>
    /\ \A i \in 1..Len(tabs) : (tabs[i].id \in SurvivorIds) # (tabs[i].id \in ClosedIds)
    /\ SurvivorIds \cup ClosedIds \subseteq {tabs[i].id : i \in 1..Len(tabs)}
    /\ Len(dedupePlan.survivors) + Len(dedupePlan.tabsToClose) = Len(tabs)
    /\ dedupePlan.survivors = Filter(tabs, LAMBDA tab : tab.id \in SurvivorIds)
    /\ \A k \in 1..Len(dedupePlan.duplicateSets) :
         dedupePlan.duplicateSets[k].keeper.id \in SurvivorIds
    /\ \A k \in 1..Len(dedupePlan.tabsToClose) :
         dedupePlan.tabsToClose[k].duplicateOf \in SurvivorIds

\* C29 happens: of the duplicates of one keeper one is closed and one survives, and the
\* survivors are not a prefix of the input
C29_Witness ==
  /\ dedupePlan.computed
  /\ \E k \in 1..Len(dedupePlan.duplicateSets) :
       \E a, b \in 1..Len(dedupePlan.duplicateSets[k].closing) :
         /\ dedupePlan.duplicateSets[k].closing[a].id \in ClosedIds
         /\ dedupePlan.duplicateSets[k].closing[b].id \in SurvivorIds
  /\ \E i, j \in 1..Len(tabs) :
       i < j /\ tabs[i].id \in ClosedIds /\ tabs[j].id \in SurvivorIds



(***************************************************************************)
(* groupByRules: the diagnostics and the groups of one call                *)
(***************************************************************************)
\* the tab ids that the groups of the result hold under a name other than the group of
\* their diagnostic
Misfiled ==
  {place \in UNION {{<<k, j>> : j \in 1..Len(grouped.groups[k].tabIds)} :
                      k \in 1..Len(grouped.groups)} :
     Bind(grouped.groups[place[1]].tabIds[place[2]], LAMBDA id :
       \/ id \notin DOMAIN lastClassification
       \/ explainClassification(lastClassification, id).group # grouped.groups[place[1]].name)}

\* the classified tabs whose diagnostic names a group that the result does not have
Orphaned ==
  {i \in Classified :
     \/ tabs[i].id \notin DOMAIN lastClassification
     \/ explainClassification(lastClassification, tabs[i].id).group \notin GroupNames}

\* C30: after a call of groupByRules that returns, every tab id held by a group of the
\* result has a diagnostic whose group is the name of that group, the tabs moved by the
\* merges of limitCategoryAssignments and capTotalGroups included, and the diagnostic of
\* every classified tab names a group of the result
C30_DiagnosticsAgreeWithGroups ==
  (grouped.called /\ ~grouped.threw) => (Misfiled = {} /\ Orphaned = {})

\* the part of C30 on the tabs of the result alone
C30_NoneMisfiled == (grouped.called /\ ~grouped.threw) => Misfiled = {}


\* the classified tabs that capTotalGroups has merged into an 'Other' record that the
\* result does not have
LostInOther ==
  {i \in Orphaned :
     /\ tabs[i].id \in DOMAIN lastClassification
     /\ lastClassification[tabs[i].id].group = "Other"
     /\ lastClassification[tabs[i].id].merge # <<>>
     /\ lastClassification[tabs[i].id].merge[Len(lastClassification[tabs[i].id].merge)].reason = "limit"}

\* every tab whose diagnostic names a group that the result does not have is one that
\* capTotalGroups has merged into 'Other'
OrphansAreLostInOther == (grouped.called /\ ~grouped.threw) => Orphaned = LostInOther

====
